---- MODULE Spec2Model ----
(***************************************************************************)
(* Order ledger and execution scheduler of the order-book simulator        *)
(* (src/app/page.js), as a state machine.                                  *)
(*                                                                         *)
(* React state is modelled as follows.  Each useState cell is a variable   *)
(* holding the value that results from the updates queued so far, so a     *)
(* functional update setX(prev => f(prev)) is one atomic step on it.  A    *)
(* render copies the cells into `view`: the values the closures created    *)
(* by that render see (event handlers, the order-execution effect, the     *)
(* setTimeout callback created by scheduleOrderExecution).  The effect of  *)
(* a render runs once, after the render and before the next one; event     *)
(* handlers, timers and feed messages may run in between.                  *)
(*                                                                         *)
(* JavaScript numbers are modelled as exact rationals <<n, d>> in lowest   *)
(* terms; `undefined`/`null` is Undef.  Date values (createdAt,            *)
(* executedAt, timeToFill) are written but never read by any transition    *)
(* and are left out of the order record.                                   *)
(*                                                                         *)
(* The feed hook (src/hooks/useOrderBook.js) is modelled per venue by      *)
(* the state of its socket, its connectivity status and its pair of Maps   *)
(* from price text to size; a message is a record of entries whose fields  *)
(* are the texts and numbers the venue sent, parsed as parseFloat does.    *)
(*                                                                         *)
(* The specifications share the actions and differ in the inputs they      *)
(* draw: SpecRace follows one order on two venues through placement,       *)
(* cancel, timer, feed and view changes; SpecPositions follows two orders  *)
(* on the selected venue through fills, merges and closes; SpecStops       *)
(* follows one position and the stop-loss orders attached to it;           *)
(* SpecAveraging follows a position through partial fills and added        *)
(* quantity; SpecOutage follows a Limit order on a venue that is not the   *)
(* selected one, under weak fairness of rendering, effects, timers and     *)
(* feed; SpecFeed follows the sockets and messages of the three venues,    *)
(* and SpecReconnect is SpecFeed under weak fairness; SpecCleanup follows  *)
(* the feed of one venue across changes of the symbol; SpecImpact applies  *)
(* calculateMarketImpact to each of a set of inputs; SpecCompare follows   *)
(* the timing comparison and SpecSubmit the validation of the form.        *)
(***************************************************************************)
EXTENDS Integers, Sequences, FiniteSets, TLC

\* ------------------------------------------------------------------ bounds
\* Number of order ids (uuidv4 values) the model hands out.
MaxOrders == 3
\* Largest quantity a position is allowed to reach by add-quantity.
MaxQty == 2
\* Number of state updates that may queue up before the next render.
MaxLag == 1
\* Ids handed out in the behaviours of SpecRace and of SpecPositions.
RaceOrders == 1
PositionOrders == 2
\* Orders placed through the form in the behaviours of SpecStops.
StopsPlaced == 1

\* --------------------------------------------------------------- rationals
Undef == <<>>

RECURSIVE Gcd(_, _)
Gcd(a, b) == IF b = 0 THEN a ELSE Gcd(b, a % b)

Abs(i) == IF i < 0 THEN -i ELSE i

\* n/d in lowest terms with a positive denominator (d # 0).
Rat(n, d) ==
    LET s == IF d < 0 THEN -1 ELSE 1
        g == Gcd(Abs(n), Abs(d))
    IN  <<(s * n) \div g, (s * d) \div g>>

Num(i) == <<i, 1>>
Zero == Num(0)
RAdd(x, y) == Rat(x[1] * y[2] + y[1] * x[2], x[2] * y[2])
RSub(x, y) == Rat(x[1] * y[2] - y[1] * x[2], x[2] * y[2])
RMul(x, y) == Rat(x[1] * y[1], x[2] * y[2])
RDiv(x, y) == Rat(x[1] * y[2], x[2] * y[1])
RAbs(x) == <<Abs(x[1]), x[2]>>
RLt(x, y) == x[1] * y[2] < y[1] * x[2]
RLe(x, y) == x[1] * y[2] <= y[1] * x[2]
RMin(x, y) == IF RLe(x, y) THEN x ELSE y

\* JavaScript truthiness of a number-or-undefined value: !x.
Falsy(x) == x = Undef \/ x = Zero

\* ----------------------------------------------------- program constants
EXCHANGES == <<"OKX", "BYBIT", "DERIBIT">>
SYMBOLS == <<"BTC-USDT", "ETH-USDT">>
\* SLIPPAGE_THRESHOLD = 0.01
SLIPPAGE_THRESHOLD == Rat(1, 100)

DataUnavailable == "Market data unavailable."
NotFilled == "Market order could not be filled."

\* ------------------------------------------------------- impact simulator
ZeroImpact ==
    [avgFillPrice |-> Zero, slippage |-> Zero,
     filledPercentage |-> Zero, priceImpact |-> Zero]

\* A walk that takes every level whole, whatever is left of the order.
RECURSIVE WalkWithoutCap(_, _, _, _)
WalkWithoutCap(p, levels, i, acc) ==
    IF i > Len(levels) \/ RLe(acc.sizeToFill, Zero) THEN acc
    ELSE
      LET levelPrice == Num(levels[i].price)
          levelSizeInBase ==
              IF p.venue = "DERIBIT"
              THEN RDiv(Num(levels[i].size), levelPrice)
              ELSE Num(levels[i].size)
          skip ==
              \/ p.side = "Buy" /\ p.orderType = "Limit"
                   /\ RLt(Num(p.price), levelPrice)
              \/ p.side = "Sell" /\ p.orderType = "Limit"
                   /\ RLt(levelPrice, Num(p.price))
      IN  IF skip THEN WalkWithoutCap(p, levels, i + 1, acc)
          ELSE WalkWithoutCap(p, levels, i + 1,
                 [sizeToFill |-> RSub(acc.sizeToFill, levelSizeInBase),
                  totalCost |-> RAdd(acc.totalCost,
                                     RMul(levelSizeInBase, levelPrice)),
                  filledSize |-> RAdd(acc.filledSize, levelSizeInBase)])

\* A walk that takes levels beyond the limit of a Limit order as well.
RECURSIVE WalkPastLimit(_, _, _, _)
WalkPastLimit(p, levels, i, acc) ==
    IF i > Len(levels) \/ RLe(acc.sizeToFill, Zero) THEN acc
    ELSE
      LET levelPrice == Num(levels[i].price)
          levelSizeInBase ==
              IF p.venue = "DERIBIT"
              THEN RDiv(Num(levels[i].size), levelPrice)
              ELSE Num(levels[i].size)
          fillableSize == RMin(acc.sizeToFill, levelSizeInBase)
      IN  WalkPastLimit(p, levels, i + 1,
            [sizeToFill |-> RSub(acc.sizeToFill, fillableSize),
             totalCost |-> RAdd(acc.totalCost, RMul(fillableSize, levelPrice)),
             filledSize |-> RAdd(acc.filledSize, fillableSize)])

\* The for-loop of calculateMarketImpact over relevantBook from level i on;
\* acc = [sizeToFill, totalCost, filledSize].
RECURSIVE WalkLevels(_, _, _, _)
WalkLevels(p, levels, i, acc) ==
    IF i > Len(levels) \/ RLe(acc.sizeToFill, Zero) THEN acc
    ELSE
      LET levelPrice == Num(levels[i].price)
          levelSizeInBase ==
              IF p.venue = "DERIBIT"
              THEN RDiv(Num(levels[i].size), levelPrice)
              ELSE Num(levels[i].size)
          skip ==
              \/ p.side = "Buy" /\ p.orderType = "Limit"
                   /\ RLt(Num(p.price), levelPrice)
              \/ p.side = "Sell" /\ p.orderType = "Limit"
                   /\ RLt(levelPrice, Num(p.price))
          fillableSize == RMin(acc.sizeToFill, levelSizeInBase)
      IN  IF skip THEN WalkLevels(p, levels, i + 1, acc)
          ELSE WalkLevels(p, levels, i + 1,
                 [sizeToFill |-> RSub(acc.sizeToFill, fillableSize),
                  totalCost |-> RAdd(acc.totalCost, RMul(fillableSize, levelPrice)),
                  filledSize |-> RAdd(acc.filledSize, fillableSize)])

calculateMarketImpact(p, book) ==
    LET orderSize == Num(p.quantity)
        relevantBook == IF p.side = "Buy" THEN book.asks ELSE book.bids
    IN  IF p.quantity <= 0 THEN ZeroImpact
        ELSE IF Len(relevantBook) = 0 THEN ZeroImpact
        ELSE
          LET bestPrice == Num(relevantBook[1].price)
              acc == WalkLevels(p, relevantBook, 1,
                       [sizeToFill |-> orderSize, totalCost |-> Zero,
                        filledSize |-> Zero])
          IN  IF relevantBook[1].price <= 0 THEN ZeroImpact
              ELSE IF acc.filledSize = Zero THEN ZeroImpact
              ELSE
                LET avgFillPrice == RDiv(acc.totalCost, acc.filledSize)
                IN  [avgFillPrice |-> avgFillPrice,
                     slippage |->
                        RMul(RAbs(RDiv(RSub(avgFillPrice, bestPrice), bestPrice)),
                             Num(100)),
                     filledPercentage |->
                        RMul(RDiv(acc.filledSize, orderSize), Num(100)),
                     priceImpact |-> RAbs(RSub(avgFillPrice, bestPrice))]

\* calculatePnl(order, currentPrice); a missing result has avgFillPrice Zero.
calculatePnl(order, currentPrice) ==
    IF Falsy(order.result.avgFillPrice) \/ Falsy(currentPrice) THEN Zero
    ELSE
      LET entryPrice == order.result.avgFillPrice
          quantity == Num(order.params.quantity)
      IN  IF order.params.side = "Buy"
          THEN RMul(RSub(currentPrice, entryPrice), quantity)
          ELSE RMul(RSub(entryPrice, currentPrice), quantity)

\* ----------------------------------------------------------- input sets
Level(p, s) == [price |-> p, size |-> s]
EmptyBook == [bids |-> <<>>, asks |-> <<>>]
\* Published books are sorted: bids descending, asks ascending.
BookA == [bids |-> <<Level(99, 1)>>, asks |-> <<Level(100, 1)>>]
BookB == [bids |-> <<Level(100, 1)>>, asks |-> <<Level(102, 1)>>]
BookL == [bids |-> <<Level(97, 1)>>, asks |-> <<Level(98, 1)>>]
\* The same best prices with a second bid level behind the first.
BookD == [bids |-> <<Level(97, 1), Level(96, 1)>>, asks |-> <<Level(98, 1)>>]
\* The first ask level is empty.
BookX == [bids |-> <<Level(99, 1)>>, asks |-> <<Level(100, 0), Level(101, 1)>>]
\* No size on the ask side.
BookZ == [bids |-> <<Level(99, 1)>>, asks |-> <<Level(100, 0)>>]

\* The form's fields: side, order type, price, quantity, timing.  The price
\* of a Market order is never read and is kept 0.
FormFields(sides, types) ==
    {[side |-> sd, orderType |-> ty,
      price |-> IF ty = "Limit" THEN 100 ELSE 0, quantity |-> 1,
      timing |-> 5000] : sd \in sides, ty \in types}

\* Books the feed of a venue publishes in the behaviours of SpecRace.
RaceBooks(v) ==
    IF v = "OKX" THEN {EmptyBook, BookA, BookX, BookZ} ELSE {EmptyBook, BookB}
RaceVenues == {"OKX", "BYBIT"}
\* Books in the behaviours of SpecPositions.
PositionBooks == {BookA, BookB}
\* Books of DERIBIT, whose level sizes are in quote notional (size / price
\* is the quantity): one unit at 100, one unit at 110, half a unit at 110.
BookD100 == [bids |-> <<Level(99, 99)>>, asks |-> <<Level(100, 100)>>]
BookD110 == [bids |-> <<Level(109, 109)>>, asks |-> <<Level(110, 110)>>]
BookD110Half == [bids |-> <<Level(109, 109)>>, asks |-> <<Level(110, 55)>>]
AveragingBooks == {BookD100, BookD110, BookD110Half}
\* Form fields and books in the behaviours of SpecCompare: orders of one
\* and of two units against books of one and of two levels a side.
CompareFields ==
    {[f EXCEPT !.quantity = q] :
        f \in FormFields({"Buy", "Sell"}, {"Market", "Limit"}), q \in {1, 2}}
CompareBooks ==
    {BookA, [bids |-> <<Level(99, 1), Level(98, 2)>>,
             asks |-> <<Level(100, 1), Level(101, 2)>>]}
\* Books and stop prices in the behaviours of SpecStops.
StopsBooks == {BookA, BookB, BookL, BookD}
StopPrices == {100, 98}

\* ------------------------------------------------- feed values and Maps
\* A value of a feed message is a string or a number; both are kept as a
\* tagged text, the characters of the string or the decimal digits of the
\* number, so that the string "100" and the number 100 are different Map
\* keys, as they are for a JavaScript Map.
Str(chars) == [t |-> "str", v |-> chars]
Number(chars) == [t |-> "num", v |-> chars]

DigitValue(c) ==
    CASE c = "0" -> 0 [] c = "1" -> 1 [] c = "2" -> 2 [] c = "3" -> 3
      [] c = "4" -> 4 [] c = "5" -> 5 [] c = "6" -> 6 [] c = "7" -> 7
      [] c = "8" -> 8 [] c = "9" -> 9 [] OTHER -> -1

\* The digits of txt from position i on: [value, count, next] with value the
\* number they spell, count how many there are, next the position after.
RECURSIVE ScanDigits(_, _, _, _)
ScanDigits(txt, i, value, count) ==
    IF i > Len(txt) \/ DigitValue(txt[i]) < 0
    THEN [value |-> value, count |-> count, next |-> i]
    ELSE ScanDigits(txt, i + 1, value * 10 + DigitValue(txt[i]), count + 1)

RECURSIVE Pow10(_)
Pow10(k) == IF k = 0 THEN 1 ELSE 10 * Pow10(k - 1)

\* parseFloat(x): the longest prefix of the text of x that is a decimal
\* literal (an optional sign, digits, optionally a point and digits), as a
\* rational; NaN when no digit is found there.
NaN == <<>>
parseFloat(x) ==
    LET txt == x.v
        negative == Len(txt) > 0 /\ txt[1] = "-"
        whole == ScanDigits(txt, IF negative THEN 2 ELSE 1, 0, 0)
        hasPoint == whole.next <= Len(txt) /\ txt[whole.next] = "."
        frac == IF hasPoint THEN ScanDigits(txt, whole.next + 1, 0, 0)
                ELSE [value |-> 0, count |-> 0, next |-> whole.next]
        magnitude == RAdd(Num(whole.value), Rat(frac.value, Pow10(frac.count)))
    IN  IF whole.count = 0 /\ frac.count = 0 THEN NaN
        ELSE IF negative THEN RSub(Zero, magnitude) ELSE magnitude
isNaN(r) == r = NaN

\* A Map is the sequence of its entries [key, value] in insertion order.
NewMap == <<>>
RECURSIVE KeyIndexFrom(_, _, _)
KeyIndexFrom(m, k, i) ==
    IF i > Len(m) THEN 0
    ELSE IF m[i].key = k THEN i ELSE KeyIndexFrom(m, k, i + 1)
\* Map.prototype.set: an existing key keeps its place.
MapSet(m, k, val) ==
    LET i == KeyIndexFrom(m, k, 1)
    IN  IF i = 0 THEN Append(m, [key |-> k, value |-> val])
        ELSE [m EXCEPT ![i].value = val]
\* Map.prototype.delete
MapDelete(m, k) == SelectSeq(m, LAMBDA e : e.key # k)

\* new Map(entries) and entries.forEach(([p, s]) => map.set(p, s)): the
\* first two elements of each entry, set in order on map m.
RECURSIVE SetAll(_, _, _)
SetAll(m, entries, i) ==
    IF i > Len(entries) THEN m
    ELSE SetAll(MapSet(m, entries[i][1], entries[i][2]), entries, i + 1)

\* OKX/BYBIT delta: parseFloat(s) === 0 ? delete(p) : set(p, s).
RECURSIVE ApplyDeltas(_, _, _)
ApplyDeltas(m, deltas, i) ==
    IF i > Len(deltas) THEN m
    ELSE ApplyDeltas(
           IF parseFloat(deltas[i][2]) = Zero
           THEN MapDelete(m, deltas[i][1])
           ELSE MapSet(m, deltas[i][1], deltas[i][2]),
           deltas, i + 1)

\* DERIBIT updateBook: entries [type, price, size]; an entry of another
\* length is skipped; type 'delete' or size === 0 deletes the price.
RECURSIVE updateBook(_, _, _)
updateBook(book, deltas, i) ==
    IF i > Len(deltas) THEN book
    ELSE updateBook(
           IF Len(deltas[i]) # 3 THEN book
           ELSE IF deltas[i][1] = Str(<<"d", "e", "l", "e", "t", "e">>)
                   \/ deltas[i][3] = Number(<<"0">>)
           THEN MapDelete(book, deltas[i][2])
           ELSE MapSet(book, deltas[i][2], deltas[i][3]),
           deltas, i + 1)

\* The comparators of updateUI: b.price - a.price for bids (descending),
\* a.price - b.price for asks: level a goes before level b.
Precedes(a, b, descending) ==
    IF descending THEN RLt(b.price, a.price) ELSE RLt(a.price, b.price)

\* Array.prototype.sort with a numeric comparator (stable): insertion of
\* level x into the sorted sequence s, after the levels it does not precede.
RECURSIVE InsertSorted(_, _, _, _)
InsertSorted(s, x, i, descending) ==
    IF i > Len(s) THEN Append(s, x)
    ELSE IF Precedes(x, s[i], descending)
    THEN SubSeq(s, 1, i - 1) \o <<x>> \o SubSeq(s, i, Len(s))
    ELSE InsertSorted(s, x, i + 1, descending)
RECURSIVE SortLevels(_, _, _, _)
SortLevels(levels, i, acc, descending) ==
    IF i > Len(levels) THEN acc
    ELSE SortLevels(levels, i + 1,
                    InsertSorted(acc, levels[i], 1, descending), descending)

\* A number of a published book: the books of this model carry whole
\* prices and sizes, which the ledger's arithmetic reads as integers.
Published(r) == IF r[2] = 1 THEN r[1] ELSE r

\* updateUI's conversion of one side of bookRef: entries to {price, size}
\* with parseFloat, NaN entries dropped, sorted by price.
PublishedSide(m, descending) ==
    LET parsed == [i \in 1..Len(m) |->
                     [price |-> parseFloat(m[i].key),
                      size |-> parseFloat(m[i].value)]]
        kept == SelectSeq(parsed, LAMBDA l : ~isNaN(l.price) /\ ~isNaN(l.size))
        sorted == SortLevels(kept, 1, <<>>, descending)
    IN  [i \in 1..Len(sorted) |->
           Level(Published(sorted[i].price), Published(sorted[i].size))]
PublishedBook(bookRef) ==
    [bids |-> PublishedSide(bookRef.bids, TRUE),
     asks |-> PublishedSide(bookRef.asks, FALSE)]

\* --------------------------------------------------------- feed messages
\* Texts of the prices and sizes the messages carry.
T0 == <<"0">>
T1 == <<"1">>
T2 == <<"2">>
T10 == <<"1", "0">>
T98 == <<"9", "8">>
T99 == <<"9", "9">>
T100 == <<"1", "0", "0">>
T100p0 == <<"1", "0", "0", ".", "0">>
T101 == <<"1", "0", "1">>
T102 == <<"1", "0", "2">>
TNew == <<"n", "e", "w">>
TChange == <<"c", "h", "a", "n", "g", "e">>
TDelete == <<"d", "e", "l", "e", "t", "e">>

\* OKX and BYBIT: {action | type, data: {bids | b, asks | a}} with entries
\* [price, size, ...] of strings.
BookMessage(kind, bids, asks) == [kind |-> kind, bids |-> bids, asks |-> asks]
Entry(p, s) == <<Str(p), Str(s)>>
\* DERIBIT: {params: {data: {type, bids, asks}}} with entries
\* [type, price, size], price and size being numbers.
DeribitEntry(type, p, s) == <<Str(type), Number(p), Number(s)>>
\* A message the handler drops: a pong, a heartbeat, an error event.
Heartbeat == [kind |-> "heartbeat", bids |-> <<>>, asks |-> <<>>]

\* A snapshot with a level of size 0, a second snapshot, a delta that adds
\* the price 100 under the text "100.0", a delta that deletes a level and
\* a delta of size 0 for the price 100 under the text "100".
OkxMessages ==
    {BookMessage("snapshot", <<Entry(T99, T1)>>,
                 <<Entry(T100, T1), Entry(T101, T0)>>),
     BookMessage("snapshot", <<Entry(T98, T1)>>, <<Entry(T100p0, T2)>>),
     BookMessage("update", <<>>, <<Entry(T100p0, T1)>>),
     BookMessage("update", <<Entry(T99, T0)>>, <<Entry(T101, T1)>>),
     BookMessage("update", <<>>, <<Entry(T100, T0)>>),
     Heartbeat}
BybitMessages ==
    {BookMessage("snapshot", <<Entry(T100, T1)>>, <<Entry(T102, T1)>>)}
DeribitMessages ==
    {BookMessage("snapshot", <<DeribitEntry(TNew, T99, T10)>>,
                 <<DeribitEntry(TNew, T100, T10), DeribitEntry(TNew, T101, T10)>>),
     BookMessage("change", <<DeribitEntry(TChange, T99, T2)>>,
                 <<DeribitEntry(TDelete, T100, T0), DeribitEntry(TNew, T102, T10)>>),
     BookMessage("change", <<>>, <<DeribitEntry(TChange, T102, T0)>>)}
FeedMessages(exchange) ==
    CASE exchange = "OKX" -> OkxMessages
      [] exchange = "BYBIT" -> BybitMessages
      [] exchange = "DERIBIT" -> DeribitMessages

\* ------------------------------------------- inputs of the simulator
\* Quantity texts: none, not a number, zero, negative, and positive ones.
TEmpty == <<>>
TAbc == <<"a", "b", "c">>
TMinus1 == <<"-", "1">>
T5 == <<"5">>
QuantityTexts == {TEmpty, TAbc, T0, TMinus1, T1, T2, T5}
LimitPrices == {99, 100, 101}
ImpactVenues == {"OKX", "DERIBIT"}
\* The order parameters of a direct call; quantity is the text of the field.
ImpactParams ==
    {p \in [symbol : {SYMBOLS[1]}, venue : ImpactVenues,
            side : {"Buy", "Sell"}, orderType : {"Market", "Limit"},
            price : LimitPrices \cup {0},
            quantity : {Str(q) : q \in QuantityTexts}, timing : {0}] :
       (p.orderType = "Market") <=> (p.price = 0)}
\* Sorted books: two and three levels a side, a side without levels, a
\* level without size at the best price, two levels at one price.
BookTwo ==
    [bids |-> <<Level(99, 1), Level(98, 2)>>,
     asks |-> <<Level(100, 1), Level(101, 2)>>]
BookThree ==
    [bids |-> <<Level(100, 1), Level(99, 1), Level(98, 1)>>,
     asks |-> <<Level(100, 1), Level(101, 1), Level(102, 1)>>]
BookNoAsks == [bids |-> <<Level(99, 1)>>, asks |-> <<>>]
BookNoBids == [bids |-> <<>>, asks |-> <<Level(100, 1)>>]
BookTwice ==
    [bids |-> <<Level(99, 1), Level(99, 2)>>,
     asks |-> <<Level(100, 1), Level(100, 1), Level(101, 0)>>]
\* DERIBIT, sizes in quote notional: one unit, then two units a side.
BookDTwo ==
    [bids |-> <<Level(100, 100), Level(99, 198)>>,
     asks |-> <<Level(100, 100), Level(110, 220)>>]
\* The book argument of a call: <<>> is undefined, <<b>> is the book b.
ImpactBooks(venue) ==
    IF venue = "DERIBIT"
    THEN {<<>>, <<EmptyBook>>, <<BookD100>>, <<BookD110Half>>, <<BookDTwo>>}
    ELSE {<<>>, <<EmptyBook>>, <<BookNoAsks>>, <<BookNoBids>>, <<BookTwo>>,
          <<BookThree>>, <<BookX>>, <<BookTwice>>}

\* The texts of the form's fields in the behaviours of SpecSubmit: quantity
\* and price empty, zero, negative and positive.
SubmitFields ==
    {f \in [side : {"Buy", "Sell"}, orderType : {"Market", "Limit"},
            price : {Str(TEmpty), Str(T0), Str(TMinus1), Str(T100)},
            quantity : {Str(TEmpty), Str(T0), Str(TMinus1), Str(T1)},
            timing : {5000}] :
       f.orderType = "Market" => f.price = Str(TEmpty)}

\* ------------------------------------------------------------------ state
VARIABLES
    simulatedOrders,   \* useState([]) : the ledger, newest placement first
    orderBooks,        \* useOrderBook(symbol).orderBooks : venue -> book
    selectedExchange,  \* useState(EXCHANGES[0])
    symbol,            \* useState(SYMBOLS[0])
    orderToCancel,     \* useState(null) : id awaiting confirmation, 0 = null
    slippageWarning,   \* useState(null) : <<>> or <<[params, delayInMs]>>
    timers,            \* pending setTimeout callbacks with their closures
    feedSymbol,        \* symbol the feed hook's effect last ran for
    view,              \* the cells as the latest render saw them
    effectPending,     \* the latest render's effects have not run yet
    lag,               \* state updates since the latest render
    nextId,            \* next uuid
    connectionStatus,  \* useOrderBook: venue -> status text
    sockets,           \* readyState of the WebSocket of each venue
    bookRefs,          \* bookRefs.current: venue -> [bids, asks] Maps
    staleSockets,      \* venue -> the socket an earlier run of the effect left
    appliedSymbols,    \* venue -> symbols of the messages applied to its Maps
    comparisonResult,  \* useState(null) : <<>> or <<results>>
    impactCall,        \* a call of calculateMarketImpact: <<>> or <<frame>>
    alertText          \* the message of the latest alert(), "" before any

\* The state of the feed hook besides the published books.
feedVars ==
    <<connectionStatus, sockets, bookRefs, staleSockets, appliedSymbols>>

\* No socket of an earlier run is left for the venue.
NoSocket == [readyState |-> "NONE", symbol |-> SYMBOLS[1]]

\* The comparison report, the frame of a direct call of the simulator and
\* the form's alert.
reportVars == <<comparisonResult, impactCall, alertText>>
vars == <<simulatedOrders, orderBooks, selectedExchange, symbol, orderToCancel,
          slippageWarning, timers, feedSymbol, view, effectPending, lag, nextId,
          feedVars, reportVars>>

Venues == {EXCHANGES[i] : i \in 1..Len(EXCHANGES)}

NoResult ==
    [avgFillPrice |-> Undef, slippage |-> Undef, filledPercentage |-> Undef,
     priceImpact |-> Undef, error |-> ""]
FillResult(r) ==
    [avgFillPrice |-> r.avgFillPrice, slippage |-> r.slippage,
     filledPercentage |-> r.filledPercentage, priceImpact |-> r.priceImpact,
     error |-> ""]
ErrorResult(msg) == [NoResult EXCEPT !.error = msg]

\* ------------------------------------------------------- sequence helpers
\* Array.prototype.findIndex by id; 0 when absent.
RECURSIVE IndexFrom(_, _, _)
IndexFrom(s, id, i) ==
    IF i > Len(s) THEN 0
    ELSE IF s[i].id = id THEN i ELSE IndexFrom(s, id, i + 1)
findIndex(s, id) == IndexFrom(s, id, 1)
Has(s, id) == findIndex(s, id) # 0
Get(s, id) == s[findIndex(s, id)]

\* book?.bids.length > 0 && book?.asks.length > 0
BookAvailable(book) == Len(book.bids) > 0 /\ Len(book.asks) > 0

\* bookRefs.current of one venue after construction.
EmptyRef == [bids |-> NewMap, asks |-> NewMap]

Cells ==
    [simulatedOrders |-> simulatedOrders, orderBooks |-> orderBooks,
     selectedExchange |-> selectedExchange, symbol |-> symbol,
     orderToCancel |-> orderToCancel, slippageWarning |-> slippageWarning]

\* The component after its first render.
Mounted ==
    /\ simulatedOrders = <<>>
    /\ orderBooks = [v \in Venues |-> EmptyBook]
    /\ selectedExchange = EXCHANGES[1]
    /\ symbol = SYMBOLS[1]
    /\ orderToCancel = 0
    /\ slippageWarning = <<>>
    /\ timers = {}
    /\ feedSymbol = SYMBOLS[1]
    /\ view = Cells
    /\ effectPending = TRUE
    /\ lag = 0
    /\ nextId = 1
    /\ connectionStatus = [v \in Venues |-> "Connecting..."]
    /\ sockets = [v \in Venues |-> "CONNECTING"]
    /\ bookRefs = [v \in Venues |-> EmptyRef]
    /\ staleSockets = [v \in Venues |-> NoSocket]
    /\ appliedSymbols = [v \in Venues |-> {}]
    /\ comparisonResult = <<>>
    /\ alertText = ""

Init == Mounted /\ impactCall = <<>>

\* calculateMarketImpact(orderParams, book) is about to be called.
PendingCall(orderParams, book) ==
    [params |-> orderParams, book |-> book, returned |-> FALSE,
     threw |-> FALSE, result |-> ZeroImpact]
InitImpact ==
    /\ Mounted
    /\ \E p \in ImpactParams :
          impactCall \in {<<PendingCall(p, b)>> : b \in ImpactBooks(p.venue)}

\* A state update made outside the effect: it waits for the next render.
Queued == lag < MaxLag /\ lag' = lag + 1

\* ---------------------------------------------------- placing an order
\* The parameters SimulationForm.handleSubmit passes to onSimulate: the form
\* fields plus the rendered symbol and the rendered selected exchange.
FormParams(f) ==
    [symbol |-> view.symbol, venue |-> view.selectedExchange, side |-> f.side,
     orderType |-> f.orderType, price |-> f.price, quantity |-> f.quantity,
     timing |-> f.timing]

\* handleSubmit's validation.
FormValid(p) ==
    /\ p.quantity > 0
    /\ p.orderType = "Limit" => p.price > 0

NewOrder(id, p) ==
    [id |-> id, positionId |-> 0, params |-> p, status |-> "Pending",
     result |-> NoResult, pnl |-> Undef, exitResult |-> NoResult,
     livePnl |-> Undef, stopPrice |-> 0]

\* scheduleOrderExecution(params, delayInMs) called from a closure that sees
\* the order books `books`: the order is prepended and a timeout is set whose
\* callback keeps `books[params.venue]`.
scheduleOrderExecution(p, books) ==
    /\ nextId <= MaxOrders
    /\ simulatedOrders' = <<NewOrder(nextId, p)>> \o simulatedOrders
    /\ timers' = timers \cup
         {[id |-> nextId, params |-> p, executionBook |-> books[p.venue]]}
    /\ nextId' = nextId + 1

handleSimulate(p) ==
    LET executionBook == view.orderBooks[p.venue]
        impact == calculateMarketImpact(p, executionBook)
    IN  /\ BookAvailable(executionBook)
        /\ Queued
        /\ IF RLt(SLIPPAGE_THRESHOLD, impact.slippage)
           THEN /\ slippageWarning' = <<[params |-> p, delayInMs |-> p.timing]>>
                /\ UNCHANGED <<simulatedOrders, timers, nextId>>
           ELSE /\ scheduleOrderExecution(p, view.orderBooks)
                /\ UNCHANGED slippageWarning
        /\ UNCHANGED <<orderBooks, selectedExchange, symbol, orderToCancel,
                       feedSymbol, view, effectPending,
                       feedVars, reportVars>>

\* SlippageWarningModal onConfirm, rendered while view.slippageWarning is set.
SlippageConfirm ==
    /\ view.slippageWarning # <<>>
    /\ Queued
    /\ scheduleOrderExecution(view.slippageWarning[1].params, view.orderBooks)
    /\ slippageWarning' = <<>>
    /\ UNCHANGED <<orderBooks, selectedExchange, symbol, orderToCancel,
                   feedSymbol, view, effectPending,
                   feedVars, reportVars>>

\* SlippageWarningModal onCancel.
SlippageCancel ==
    /\ view.slippageWarning # <<>>
    /\ Queued
    /\ slippageWarning' = <<>>
    /\ UNCHANGED <<simulatedOrders, orderBooks, selectedExchange, symbol,
                   orderToCancel, timers, feedSymbol, view, effectPending, nextId,
                   feedVars, reportVars>>

\* A form that accepts every input.
AcceptAll(formState) == TRUE

\* The test of SimulationForm.handleSubmit on the texts of the fields:
\* !text || parseFloat(text) <= 0 rejects.
FieldRejected(text) ==
    \/ Len(text.v) = 0
    \/ ~isNaN(parseFloat(text)) /\ RLe(parseFloat(text), Zero)
QuantityAccepted(formState) == ~FieldRejected(formState.quantity)
PriceAccepted(formState) ==
    formState.orderType = "Limit" => ~FieldRejected(formState.price)

\* The fields as handleSimulate reads them: the numbers the texts spell.
\* An empty text is read as 0: an empty quantity is treated as 0 is by
\* calculateMarketImpact, and an empty price passes the validation only
\* for a Market order, whose price is never read.
FieldValue(text) ==
    IF isNaN(parseFloat(text)) THEN 0 ELSE parseFloat(text)[1]
ParsedFields(formState) ==
    [side |-> formState.side, orderType |-> formState.orderType,
     price |-> FieldValue(formState.price),
     quantity |-> FieldValue(formState.quantity),
     timing |-> formState.timing]

\* SimulationForm.handleSubmit: an invalid quantity or limit price ends in
\* an alert; otherwise onSimulate (handleSimulate) gets the parameters.
handleSubmit(formState) ==
    IF ~QuantityAccepted(formState)
    THEN /\ alertText' = "Please enter a valid quantity."
         /\ UNCHANGED <<simulatedOrders, orderBooks, selectedExchange, symbol,
                        orderToCancel, slippageWarning, timers, feedSymbol,
                        view, effectPending, lag, nextId, feedVars,
                        comparisonResult, impactCall>>
    ELSE IF ~PriceAccepted(formState)
    THEN /\ alertText' = "Please enter a valid price for a limit order."
         /\ UNCHANGED <<simulatedOrders, orderBooks, selectedExchange, symbol,
                        orderToCancel, slippageWarning, timers, feedSymbol,
                        view, effectPending, lag, nextId, feedVars,
                        comparisonResult, impactCall>>
    ELSE handleSimulate(FormParams(ParsedFields(formState)))

\* -------------------------------------------------- delayed execution
\* o.status === 'Filled' && !o.pnl, same symbol, side and venue.
MatchesOpen(o, p) ==
    /\ o.status = "Filled" /\ Falsy(o.pnl)
    /\ o.params.symbol = p.symbol
    /\ o.params.side = p.side
    /\ o.params.venue = p.venue

RECURSIVE FindOpenFrom(_, _, _)
FindOpenFrom(s, p, i) ==
    IF i > Len(s) THEN 0
    ELSE IF MatchesOpen(s[i], p) THEN i ELSE FindOpenFrom(s, p, i + 1)

Merged(o, fillAvg, fillQty) ==
    LET oldTotalCost == RMul(o.result.avgFillPrice, Num(o.params.quantity))
        newTotalCost == RMul(fillAvg, Num(fillQty))
        totalQuantity == o.params.quantity + fillQty
        newAvgPrice == RDiv(RAdd(oldTotalCost, newTotalCost), Num(totalQuantity))
    IN  [o EXCEPT !.params.quantity = totalQuantity,
                  !.result.avgFillPrice = newAvgPrice]

Without(s, id) == SelectSeq(s, LAMBDA o : o.id # id)

\* The updater the timeout callback passes to setSimulatedOrders.
TimerUpdate(prevOrders, t) ==
    LET p == t.params
        executionBook == t.executionBook
        result == calculateMarketImpact(p, executionBook)
        e == FindOpenFrom(prevOrders, p, 1)
    IN  IF ~Has(prevOrders, t.id) \/ Get(prevOrders, t.id).status # "Pending"
        THEN prevOrders
        ELSE IF ~BookAvailable(executionBook)
        THEN [i \in 1..Len(prevOrders) |->
                IF prevOrders[i].id = t.id
                THEN [prevOrders[i] EXCEPT !.status = "Failed",
                                            !.result = ErrorResult(DataUnavailable)]
                ELSE prevOrders[i]]
        ELSE IF RLt(Zero, result.filledPercentage)
        THEN IF e # 0
             THEN Without([i \in 1..Len(prevOrders) |->
                             IF prevOrders[i].id = prevOrders[e].id
                             THEN Merged(prevOrders[i], result.avgFillPrice,
                                         p.quantity)
                             ELSE prevOrders[i]], t.id)
             ELSE [i \in 1..Len(prevOrders) |->
                     IF prevOrders[i].id = t.id
                     THEN [prevOrders[i] EXCEPT !.status = "Filled",
                                                 !.result = FillResult(result)]
                     ELSE prevOrders[i]]
        ELSE IF p.orderType = "Market"
        THEN [i \in 1..Len(prevOrders) |->
                IF prevOrders[i].id = t.id
                THEN [prevOrders[i] EXCEPT !.status = "Failed",
                                            !.result = ErrorResult(NotFilled)]
                ELSE prevOrders[i]]
        ELSE prevOrders

TimerFires(t) ==
    /\ t \in timers
    /\ Queued
    /\ simulatedOrders' = TimerUpdate(simulatedOrders, t)
    /\ timers' = timers \ {t}
    /\ UNCHANGED <<orderBooks, selectedExchange, symbol, orderToCancel,
                   slippageWarning, feedSymbol, view, effectPending, nextId,
                   feedVars, reportVars>>

\* ------------------------------------------------------------- cancel
\* OrderHistoryCard shows the Cancel button while the rendered order is
\* Pending or Untriggered; handleCancelOrder stores the id.
handleCancelOrder(id) ==
    /\ Has(view.simulatedOrders, id)
    /\ Get(view.simulatedOrders, id).status \in {"Pending", "Untriggered"}
    /\ Queued
    /\ orderToCancel' = id
    /\ UNCHANGED <<simulatedOrders, orderBooks, selectedExchange, symbol,
                   slippageWarning, timers, feedSymbol, view, effectPending,
                   nextId,
                   feedVars, reportVars>>

\* The updater confirmCancelOrder passes to setSimulatedOrders.
CancelUpdate(p, id) ==
    [i \in 1..Len(p) |->
       IF p[i].id = id THEN [p[i] EXCEPT !.status = "Cancelled"] ELSE p[i]]

\* ConfirmationModal "Yes", rendered while view.orderToCancel is set.
confirmCancelOrder ==
    /\ view.orderToCancel # 0
    /\ Queued
    /\ simulatedOrders' = CancelUpdate(simulatedOrders, view.orderToCancel)
    /\ orderToCancel' = 0
    /\ UNCHANGED <<orderBooks, selectedExchange, symbol, slippageWarning,
                   timers, feedSymbol, view, effectPending, nextId,
                   feedVars, reportVars>>

\* ConfirmationModal "No".
dismissCancelOrder ==
    /\ view.orderToCancel # 0
    /\ Queued
    /\ orderToCancel' = 0
    /\ UNCHANGED <<simulatedOrders, orderBooks, selectedExchange, symbol,
                   slippageWarning, timers, feedSymbol, view, effectPending,
                   nextId,
                   feedVars, reportVars>>

\* ------------------------------------------------- position handlers
\* OrdersPage lists as positions the rendered orders with status Filled and
\* pnl === undefined; PositionCard carries the three position buttons.
ShownAsPosition(id) ==
    /\ Has(view.simulatedOrders, id)
    /\ Get(view.simulatedOrders, id).status = "Filled"
    /\ Get(view.simulatedOrders, id).pnl = Undef

\* A close that marks the position and leaves its stop-loss orders in the
\* ledger (handleClosePosition without the filter).
CloseKeepingStops(p, orderId, pnl, exitResult) ==
    [i \in 1..Len(p) |->
       IF p[i].id = orderId
       THEN [p[i] EXCEPT !.pnl = pnl, !.exitResult = exitResult]
       ELSE p[i]]

\* The updater handleClosePosition passes to setSimulatedOrders.
CloseUpdate(p, orderId, pnl, exitResult) ==
    SelectSeq([i \in 1..Len(p) |->
                 IF p[i].id = orderId
                 THEN [p[i] EXCEPT !.pnl = pnl, !.exitResult = exitResult]
                 ELSE p[i]],
              LAMBDA sl : sl.positionId # orderId)

handleClosePosition(orderId) ==
    LET orderToClose == Get(view.simulatedOrders, orderId)
        closeSide == IF orderToClose.params.side = "Buy" THEN "Sell" ELSE "Buy"
        closeParams == [orderToClose.params EXCEPT !.side = closeSide,
                                                   !.orderType = "Market"]
        book == view.orderBooks[orderToClose.params.venue]
        closeResult == calculateMarketImpact(closeParams, book)
        pnl == calculatePnl(orderToClose, closeResult.avgFillPrice)
    IN  /\ ShownAsPosition(orderId)
        /\ IF BookAvailable(book)
           THEN /\ Queued
                /\ simulatedOrders' =
                     CloseUpdate(simulatedOrders, orderId, pnl,
                                 FillResult(closeResult))
                /\ UNCHANGED <<orderBooks, selectedExchange, symbol,
                               orderToCancel, slippageWarning, timers,
                               feedSymbol, view, effectPending, nextId,
                               feedVars, reportVars>>
           \* "Order book not available for closing.": no state of the
           \* ledger is touched.
           ELSE UNCHANGED vars

\* AddStopLossModal confirms with a stop price > 0 for the position it was
\* opened on.
handleAddStopLoss(positionId, stopPrice) ==
    LET position == Get(view.simulatedOrders, positionId)
        slSide == IF position.params.side = "Buy" THEN "Sell" ELSE "Buy"
        newSlOrder ==
            [id |-> nextId, positionId |-> positionId,
             params |-> [position.params EXCEPT !.side = slSide],
             status |-> "Untriggered", result |-> NoResult, pnl |-> Undef,
             exitResult |-> NoResult, livePnl |-> Undef,
             stopPrice |-> stopPrice]
    IN  /\ ShownAsPosition(positionId)
        /\ nextId <= MaxOrders
        /\ Queued
        /\ simulatedOrders' = Append(simulatedOrders, newSlOrder)
        /\ nextId' = nextId + 1
        /\ UNCHANGED <<orderBooks, selectedExchange, symbol, orderToCancel,
                       slippageWarning, timers, feedSymbol, view, effectPending,
                       feedVars, reportVars>>

\* AddQuantityModal confirms with a quantity > 0.
handleAddQuantity(orderId, additionalQuantity) ==
    LET orderToModify == Get(view.simulatedOrders, orderId)
        addParams == [orderToModify.params EXCEPT
                        !.quantity = additionalQuantity, !.orderType = "Market"]
        book == view.orderBooks[orderToModify.params.venue]
        addResult == calculateMarketImpact(addParams, book)
        merged == Merged(orderToModify, addResult.avgFillPrice, additionalQuantity)
    IN  /\ ShownAsPosition(orderId)
        /\ BookAvailable(book)
        /\ orderToModify.params.quantity + additionalQuantity <= MaxQty
        /\ Queued
        /\ simulatedOrders' =
             [i \in 1..Len(simulatedOrders) |->
                IF simulatedOrders[i].id = orderId
                THEN [simulatedOrders[i] EXCEPT
                        !.params.quantity = merged.params.quantity,
                        !.result.avgFillPrice = merged.result.avgFillPrice]
                ELSE simulatedOrders[i]]
        /\ UNCHANGED <<orderBooks, selectedExchange, symbol, orderToCancel,
                       slippageWarning, timers, feedSymbol, view, effectPending,
                       nextId,
                       feedVars, reportVars>>

\* ------------------------------------------------- view and feed inputs
setSelectedExchange(v) ==
    /\ v # selectedExchange
    /\ Queued
    /\ selectedExchange' = v
    /\ UNCHANGED <<simulatedOrders, orderBooks, symbol, orderToCancel,
                   slippageWarning, timers, feedSymbol, view, effectPending,
                   nextId,
                   feedVars, reportVars>>

setSymbol(s) ==
    /\ s # symbol
    /\ Queued
    /\ symbol' = s
    /\ UNCHANGED <<simulatedOrders, orderBooks, selectedExchange, orderToCancel,
                   slippageWarning, timers, feedSymbol, view, effectPending,
                   nextId,
                   feedVars, reportVars>>

\* updateUI after a feed message of venue v: setOrderBooks(prev => ({...prev,
\* [exchange]: {bids, asks}})).
BookUpdate(v, b) ==
    /\ b # orderBooks[v]
    /\ Queued
    /\ orderBooks' = [orderBooks EXCEPT ![v] = b]
    /\ UNCHANGED <<simulatedOrders, selectedExchange, symbol, orderToCancel,
                   slippageWarning, timers, feedSymbol, view, effectPending,
                   nextId,
                   feedVars, reportVars>>

\* ------------------------------------------------ timing comparison
\* TIMING_SCENARIOS: delay in ms and additional slippage factor.
TIMING_SCENARIOS ==
    <<[delayInMs |-> 0, delayFactor |-> Zero],
      [delayInMs |-> 5000, delayFactor |-> Rat(5, 100)],
      [delayInMs |-> 10000, delayFactor |-> Rat(10, 100)],
      [delayInMs |-> 30000, delayFactor |-> Rat(25, 100)]>>

\* A row of the report that repeats the base impact for every scenario.
UnscaledRow(scenario, baseImpact, params) ==
    [delayInMs |-> scenario.delayInMs, delayFactor |-> scenario.delayFactor,
     avgFillPrice |-> baseImpact.avgFillPrice,
     slippage |-> baseImpact.slippage,
     priceImpact |-> baseImpact.priceImpact,
     filledPercentage |-> baseImpact.filledPercentage,
     orderParams |-> params]

\* The body of TIMING_SCENARIOS.map in handleCompare for one scenario.
ScenarioRow(scenario, baseImpact, params) ==
    LET scale == RAdd(Num(1), scenario.delayFactor)
        adjustedSlippage == RMul(baseImpact.slippage, scale)
        adjustedPriceImpact == RMul(baseImpact.priceImpact, scale)
        priceChange ==
            RDiv(RMul(baseImpact.avgFillPrice,
                      RSub(adjustedSlippage, baseImpact.slippage)),
                 Num(100))
        adjustedAvgFillPrice ==
            IF RLt(Zero, scenario.delayFactor)
               /\ RLt(Zero, baseImpact.avgFillPrice)
            THEN IF params.side = "Buy"
                 THEN RAdd(baseImpact.avgFillPrice, priceChange)
                 ELSE RSub(baseImpact.avgFillPrice, priceChange)
            ELSE baseImpact.avgFillPrice
    IN  [delayInMs |-> scenario.delayInMs, delayFactor |-> scenario.delayFactor,
         avgFillPrice |-> adjustedAvgFillPrice,
         slippage |-> adjustedSlippage,
         priceImpact |-> adjustedPriceImpact,
         filledPercentage |-> baseImpact.filledPercentage,
         orderParams |-> params]

\* The parameters SimulationForm.handleCompare passes to onCompare: the
\* form fields without timing, plus the rendered symbol and exchange.
CompareParams(f) ==
    [symbol |-> view.symbol, venue |-> view.selectedExchange, side |-> f.side,
     orderType |-> f.orderType, price |-> f.price, quantity |-> f.quantity]

\* The Compare button: the form validates as for a submission, then
\* handleCompare(params) of the latest render builds the report.  It sets
\* comparisonResult and the page; with no book it only opens a message.
handleCompare(params) ==
    LET book == view.orderBooks[params.venue]
    IN  /\ FormValid(params)
        /\ IF BookAvailable(book)
           THEN /\ Queued
                /\ comparisonResult' =
                     <<[i \in 1..Len(TIMING_SCENARIOS) |->
                          ScenarioRow(TIMING_SCENARIOS[i],
                                      calculateMarketImpact(params, book),
                                      params)]>>
                /\ UNCHANGED <<simulatedOrders, orderBooks, selectedExchange,
                               symbol, orderToCancel, slippageWarning, timers,
                               feedSymbol, view, effectPending, nextId,
                               feedVars, impactCall, alertText>>
           ELSE UNCHANGED vars

\* ------------------------------------------ a call of the simulator
\* calculateMarketImpact(orderParams, book) runs to its end: quantity is
\* parsed and tested first, then a property of book is read, which throws a
\* TypeError when book is undefined or null.
calculateMarketImpactCall ==
    /\ impactCall # <<>>
    /\ ~impactCall[1].returned /\ ~impactCall[1].threw
    /\ LET call == impactCall[1]
           orderSize == parseFloat(call.params.quantity)
       IN  impactCall' =
             <<IF isNaN(orderSize) \/ RLe(orderSize, Zero)
               THEN [call EXCEPT !.returned = TRUE, !.result = ZeroImpact]
               ELSE IF call.book = <<>>
               THEN [call EXCEPT !.threw = TRUE]
               ELSE [call EXCEPT
                       !.returned = TRUE,
                       !.result = calculateMarketImpact(
                                    [call.params EXCEPT
                                       !.quantity = orderSize[1]],
                                    call.book[1])]>>
    /\ UNCHANGED <<simulatedOrders, orderBooks, selectedExchange, symbol,
                   orderToCancel, slippageWarning, timers, feedSymbol, view,
                   effectPending, lag, nextId, feedVars, comparisonResult,
                   alertText>>

\* ------------------------------------------------------ the feed hook
\* ws.onopen: the status of the venue becomes 'Connected' and the
\* subscription is sent.
onopen(exchange) ==
    /\ sockets[exchange] = "CONNECTING"
    /\ sockets' = [sockets EXCEPT ![exchange] = "OPEN"]
    /\ connectionStatus' = [connectionStatus EXCEPT ![exchange] = "Connected"]
    /\ UNCHANGED <<simulatedOrders, orderBooks, selectedExchange, symbol,
                   orderToCancel, slippageWarning, timers, feedSymbol, view,
                   effectPending, lag, nextId, bookRefs, staleSockets,
                   appliedSymbols, reportVars>>

\* The socket of the venue fails or is closed by the peer: the error and
\* close events are delivered to ws.onerror and ws.onclose, which write to
\* the console and change no state.
onclose(exchange) ==
    /\ sockets[exchange] \in {"CONNECTING", "OPEN"}
    /\ sockets' = [sockets EXCEPT ![exchange] = "CLOSED"]
    /\ UNCHANGED <<simulatedOrders, orderBooks, selectedExchange, symbol,
                   orderToCancel, slippageWarning, timers, feedSymbol, view,
                   effectPending, lag, nextId, connectionStatus, bookRefs,
                   staleSockets, appliedSymbols, reportVars>>

\* The switch of ws.onmessage on bookRef: the Maps after the message.
ApplyMessage(exchange, bookRef, response) ==
    IF exchange = "DERIBIT"
    THEN IF response.kind = "snapshot"
         THEN [bids |-> SetAll(NewMap, response.bids, 1),
               asks |-> SetAll(NewMap, response.asks, 1)]
         ELSE [bids |-> updateBook(bookRef.bids, response.bids, 1),
               asks |-> updateBook(bookRef.asks, response.asks, 1)]
    ELSE IF response.kind = "snapshot"
         THEN [bids |-> SetAll(NewMap, response.bids, 1),
               asks |-> SetAll(NewMap, response.asks, 1)]
         ELSE [bids |-> ApplyDeltas(bookRef.bids, response.bids, 1),
               asks |-> ApplyDeltas(bookRef.asks, response.asks, 1)]

\* A handler that hands its readers the live book: the books the latest
\* render holds change with every message.
onmessageLive(exchange, response) ==
    /\ sockets[exchange] = "OPEN"
    /\ response.kind # "heartbeat"
    /\ Queued
    /\ bookRefs' = [bookRefs EXCEPT
                      ![exchange] = ApplyMessage(exchange, @, response)]
    /\ orderBooks' = [orderBooks EXCEPT
                        ![exchange] = PublishedBook(bookRefs'[exchange])]
    /\ view' = [view EXCEPT !.orderBooks = orderBooks']
    /\ appliedSymbols' = [appliedSymbols EXCEPT
                            ![exchange] = @ \cup {feedSymbol}]
    /\ UNCHANGED <<simulatedOrders, selectedExchange, symbol, orderToCancel,
                   slippageWarning, timers, feedSymbol, effectPending, nextId,
                   connectionStatus, sockets, staleSockets, reportVars>>

\* ws.onmessage with a parsed message: filtered messages return at once;
\* a book message updates the Maps of the venue and updateUI publishes them.
onmessage(exchange, response) ==
    /\ sockets[exchange] = "OPEN"
    /\ IF response.kind = "heartbeat"
       THEN UNCHANGED vars
       ELSE /\ Queued
            /\ bookRefs' = [bookRefs EXCEPT
                              ![exchange] = ApplyMessage(exchange, @, response)]
            /\ orderBooks' = [orderBooks EXCEPT
                                ![exchange] = PublishedBook(bookRefs'[exchange])]
            /\ appliedSymbols' = [appliedSymbols EXCEPT
                                    ![exchange] = @ \cup {feedSymbol}]
            /\ UNCHANGED <<simulatedOrders, selectedExchange, symbol,
                           orderToCancel, slippageWarning, timers, feedSymbol,
                           view, effectPending, nextId, connectionStatus,
                           sockets, staleSockets, reportVars>>

\* ws.onopen of a socket that an earlier run of the effect created and its
\* cleanup did not close: the handler is the one that run installed, with
\* that run's symbol in its subscription.
onopenStale(exchange) ==
    /\ staleSockets[exchange].readyState = "CONNECTING"
    /\ staleSockets' = [staleSockets EXCEPT ![exchange].readyState = "OPEN"]
    /\ connectionStatus' = [connectionStatus EXCEPT ![exchange] = "Connected"]
    /\ UNCHANGED <<simulatedOrders, orderBooks, selectedExchange, symbol,
                   orderToCancel, slippageWarning, timers, feedSymbol, view,
                   effectPending, lag, nextId, sockets, bookRefs,
                   appliedSymbols, reportVars>>

\* ws.onmessage of such a socket: bookRefs.current[exchange] is the object
\* the current run uses too.
onmessageStale(exchange, response) ==
    /\ staleSockets[exchange].readyState = "OPEN"
    /\ IF response.kind = "heartbeat"
       THEN UNCHANGED vars
       ELSE /\ Queued
            /\ bookRefs' = [bookRefs EXCEPT
                              ![exchange] = ApplyMessage(exchange, @, response)]
            /\ orderBooks' = [orderBooks EXCEPT
                                ![exchange] = PublishedBook(bookRefs'[exchange])]
            /\ appliedSymbols' =
                 [appliedSymbols EXCEPT
                    ![exchange] = @ \cup {staleSockets[exchange].symbol}]
            /\ UNCHANGED <<simulatedOrders, selectedExchange, symbol,
                           orderToCancel, slippageWarning, timers, feedSymbol,
                           view, effectPending, nextId, connectionStatus,
                           sockets, staleSockets, reportVars>>

\* ------------------------------------------------------------- render
\* React renders again once a cell has changed and the previous render's
\* effects have run.  The order-execution effect is re-run when one of its
\* dependencies [symbol, orderBooks, simulatedOrders, selectedExchange]
\* differs from the previous render's.  An update that left every cell as it
\* was (a timer that found its order no longer Pending) ends the same way,
\* with nothing for the effects to do.
Render ==
    /\ ~effectPending
    /\ Cells # view \/ lag > 0
    /\ view' = Cells
    /\ effectPending' =
         \/ symbol # view.symbol
         \/ orderBooks # view.orderBooks
         \/ simulatedOrders # view.simulatedOrders
         \/ selectedExchange # view.selectedExchange
    /\ lag' = 0
    /\ UNCHANGED <<simulatedOrders, orderBooks, selectedExchange, symbol,
                   orderToCancel, slippageWarning, timers, feedSymbol, nextId,
                   feedVars, reportVars>>

\* ------------------------------------- the order-execution effect (pass)
\* updatedOrders[index] = {...updatedOrders[index], ...}: the order with
\* this id is replaced by o, the others are kept.
SetAt(s, id, o) ==
    [i \in 1..Len(s) |-> IF s[i].id = id THEN o ELSE s[i]]

\* executeTriggeredOrder(orderToExecute, book) on the working copy
\* updatedOrders; returns [orders, ok].
executeTriggeredOrder(updatedOrders, orderToExecute, book) ==
    LET executionParams ==
            IF orderToExecute.status = "Untriggered"
            THEN [orderToExecute.params EXCEPT !.orderType = "Market"]
            ELSE orderToExecute.params
        result == calculateMarketImpact(executionParams, book)
        ClosePos(o) ==
            [o EXCEPT !.pnl = calculatePnl(o, result.avgFillPrice),
                      !.exitResult = FillResult(result)]
        Fill(o) == [o EXCEPT !.status = "Filled", !.result = FillResult(result)]
    IN  IF RLe(result.filledPercentage, Zero)
        THEN [orders |-> updatedOrders, ok |-> FALSE]
        ELSE IF orderToExecute.status = "Untriggered"
        THEN [orders |->
                Without(SetAt(updatedOrders, orderToExecute.positionId,
                              ClosePos(Get(updatedOrders,
                                           orderToExecute.positionId))),
                        orderToExecute.id),
              ok |-> TRUE]
        ELSE [orders |-> SetAt(updatedOrders, orderToExecute.id,
                              Fill(Get(updatedOrders, orderToExecute.id))),
              ok |-> TRUE]

\* The trigger test of one order against the best prices of the pass.
conditionMet(order, bestBid, bestAsk, midPrice) ==
    IF order.status = "Pending" /\ order.params.orderType = "Limit"
    THEN \/ order.params.side = "Buy" /\ order.params.price >= bestAsk
         \/ order.params.side = "Sell" /\ order.params.price <= bestBid
    ELSE IF order.status = "Untriggered"
    THEN \/ order.params.side = "Sell" /\ RLe(midPrice, Num(order.stopPrice))
         \/ order.params.side = "Buy" /\ RLe(Num(order.stopPrice), midPrice)
    ELSE FALSE

\* One iteration of ordersToProcess.forEach; acc = [orders, changed].
ProcessOrder(acc, order, sym, currentBook) ==
    LET bestBid == currentBook.bids[1].price
        bestAsk == currentBook.asks[1].price
        midPrice == RDiv(Num(bestBid + bestAsk), Num(2))
        newLivePnl == calculatePnl(order, midPrice)
        SetZero(o) == [o EXCEPT !.livePnl = Zero]
        SetLive(o) == [o EXCEPT !.livePnl = newLivePnl]
        acc1 ==
            IF order.status = "Filled" /\ Falsy(order.pnl)
               /\ order.livePnl # newLivePnl /\ Has(acc.orders, order.id)
            THEN [orders |-> SetAt(acc.orders, order.id,
                                  SetLive(Get(acc.orders, order.id))),
                  changed |-> TRUE]
            ELSE acc
        exec == executeTriggeredOrder(acc1.orders, order, currentBook)
    IN  IF order.params.symbol # sym
        THEN IF ~Falsy(order.livePnl) /\ Has(acc.orders, order.id)
             THEN [orders |-> SetAt(acc.orders, order.id,
                                   SetZero(Get(acc.orders, order.id))),
                   changed |-> TRUE]
             ELSE acc
        ELSE IF conditionMet(order, bestBid, bestAsk, midPrice) /\ exec.ok
        THEN [orders |-> exec.orders, changed |-> TRUE]
        ELSE acc1

RECURSIVE ForEach(_, _, _, _, _)
ForEach(acc, ordersToProcess, i, sym, currentBook) ==
    IF i > Len(ordersToProcess) THEN acc
    ELSE ForEach(ProcessOrder(acc, ordersToProcess[i], sym, currentBook),
                 ordersToProcess, i + 1, sym, currentBook)

NeedsProcessing(o) ==
    \/ o.status = "Pending"
    \/ o.status = "Untriggered"
    \/ o.status = "Filled" /\ Falsy(o.pnl)

\* The body of the effect for a render that saw `v`: [orders, changed].
EvaluationPass(v) ==
    LET currentBook == v.orderBooks[v.selectedExchange]
    IN  IF ~BookAvailable(currentBook)
        THEN [orders |-> v.simulatedOrders, changed |-> FALSE]
        ELSE ForEach([orders |-> v.simulatedOrders, changed |-> FALSE],
                     SelectSeq(v.simulatedOrders, NeedsProcessing), 1,
                     v.symbol, currentBook)

\* The effects of the latest render, in hook order: the feed hook's effect,
\* then the order-execution effect, which commits its working copy with
\* setSimulatedOrders(value).  When the symbol changed, the cleanup of the
\* feed hook's previous run closes the sockets that are OPEN, and the new
\* run resets the books, clears the Maps and connects again.  A socket
\* that was still CONNECTING is not closed; the model follows the latest
\* such socket of each venue.
RunEffects ==
    LET pass == EvaluationPass(view)
    IN  /\ effectPending
        /\ effectPending' = FALSE
        /\ IF view.symbol # feedSymbol
           THEN /\ orderBooks' = [v \in Venues |-> EmptyBook]
                /\ feedSymbol' = view.symbol
                /\ bookRefs' = [v \in Venues |-> EmptyRef]
                /\ connectionStatus' = [v \in Venues |-> "Connecting..."]
                /\ sockets' = [v \in Venues |-> "CONNECTING"]
                /\ staleSockets' =
                     [v \in Venues |->
                        IF sockets[v] = "CONNECTING"
                        THEN [readyState |-> "CONNECTING",
                              symbol |-> feedSymbol]
                        ELSE staleSockets[v]]
                /\ appliedSymbols' = [v \in Venues |-> {}]
           ELSE UNCHANGED <<orderBooks, feedSymbol, feedVars>>
        /\ simulatedOrders' =
             IF pass.changed THEN pass.orders ELSE simulatedOrders
        /\ UNCHANGED <<selectedExchange, symbol, orderToCancel, slippageWarning,
                       timers, view, lag, nextId, reportVars>>

\* ------------------------------------------------------- specification
\* One order on either venue, racing with cancel, feed and view changes.
RaceNext ==
    \/ \E f \in FormFields({"Buy", "Sell"}, {"Market", "Limit"}) :
          nextId <= RaceOrders /\ handleSimulate(FormParams(f))
    \/ nextId <= RaceOrders /\ SlippageConfirm
    \/ SlippageCancel
    \/ \E t \in timers : TimerFires(t)
    \/ \E id \in 1..RaceOrders : handleCancelOrder(id)
    \/ confirmCancelOrder
    \/ dismissCancelOrder
    \/ \E id \in 1..RaceOrders : handleClosePosition(id)
    \/ \E id \in 1..RaceOrders : handleAddQuantity(id, 1)
    \/ \E v \in RaceVenues : setSelectedExchange(v)
    \/ \E v \in RaceVenues : \E b \in RaceBooks(v) : BookUpdate(v, b)
    \/ Render
    \/ RunEffects

SpecRace == Init /\ [][RaceNext]_vars

\* Positions on the selected venue: fills, merges, stops and closes.
PositionNext ==
    \/ \E f \in FormFields({"Buy"}, {"Market", "Limit"}) :
          nextId <= PositionOrders /\ handleSimulate(FormParams(f))
    \/ \E t \in timers : TimerFires(t)
    \/ \E id \in 1..PositionOrders : handleClosePosition(id)
    \/ \E id \in 1..PositionOrders, sp \in StopPrices :
          nextId <= PositionOrders /\ handleAddStopLoss(id, sp)
    \/ \E id \in 1..PositionOrders : handleAddQuantity(id, 1)
    \/ \E b \in PositionBooks : BookUpdate(EXCHANGES[1], b)
    \/ Render
    \/ RunEffects

SpecPositions == Init /\ [][PositionNext]_vars

\* One position with the stop-loss orders attached to it.
StopsNext ==
    \/ \E f \in FormFields({"Buy"}, {"Market"}) :
          nextId <= StopsPlaced /\ handleSimulate(FormParams(f))
    \/ \E t \in timers : TimerFires(t)
    \/ \E id \in 1..MaxOrders : handleClosePosition(id)
    \/ \E id \in 1..MaxOrders, sp \in StopPrices : handleAddStopLoss(id, sp)
    \/ \E id \in 1..MaxOrders : handleAddQuantity(id, 1)
    \/ \E id \in 1..MaxOrders : handleCancelOrder(id)
    \/ confirmCancelOrder
    \/ dismissCancelOrder
    \/ \E b \in StopsBooks : BookUpdate(EXCHANGES[1], b)
    \/ Render
    \/ RunEffects

SpecStops == Init /\ [][StopsNext]_vars

\* Market orders on DERIBIT merged into one position, by timer and by
\* add-quantity, on books with full and with partial liquidity.
AveragingNext ==
    \/ setSelectedExchange(EXCHANGES[3])
    \/ \E f \in FormFields({"Buy"}, {"Market"}) :
          nextId <= PositionOrders /\ handleSimulate(FormParams(f))
    \/ \E t \in timers : TimerFires(t)
    \/ \E id \in 1..PositionOrders : handleAddQuantity(id, 1)
    \/ \E b \in AveragingBooks : BookUpdate(EXCHANGES[3], b)
    \/ Render
    \/ RunEffects

SpecAveraging == Init /\ [][AveragingNext]_vars

\* An outage of BYBIT: its book stays empty while OKX keeps publishing.  One
\* Limit order is placed on OKX and the user may select either venue.
OutageBooks == {BookA, BookB, BookL}

OutageFeed == \E b \in OutageBooks : BookUpdate(EXCHANGES[1], b)
OutageTimers == \E t \in timers : TimerFires(t)

OutageNext ==
    \/ \E f \in FormFields({"Buy"}, {"Limit"}) :
          nextId <= RaceOrders /\ handleSimulate(FormParams(f))
    \/ OutageTimers
    \/ \E v \in RaceVenues : setSelectedExchange(v)
    \/ OutageFeed
    \/ Render
    \/ RunEffects

\* Fairness.  React renders after a state update and runs the effects of a
\* render, a timeout set by setTimeout fires, and the socket of the venue
\* that is up keeps delivering messages.  RunEffects is enabled exactly when
\* effectPending holds and is the only action that clears it; a timer leaves
\* `timers` only by firing, which it can do whenever an update may queue.
\* The fairness of these two is stated on those variables.
EffectsRun == effectPending /\ effectPending' = FALSE
TimerRuns == lag < MaxLag /\ \E t \in timers : timers' = timers \ {t}

SpecOutage ==
    /\ Init /\ [][OutageNext]_vars
    /\ WF_vars(Render) /\ WF_effectPending(EffectsRun)
    /\ WF_timers(TimerRuns) /\ WF_vars(OutageFeed)

\* Comparison reports asked for while one order is placed and executed.
CompareNext ==
    \/ \E f \in CompareFields : handleCompare(CompareParams(f))
    \/ \E f \in FormFields({"Buy"}, {"Market"}) :
          nextId <= RaceOrders /\ handleSimulate(FormParams(f))
    \/ \E t \in timers : TimerFires(t)
    \/ \E b \in CompareBooks : BookUpdate(EXCHANGES[1], b)
    \/ Render
    \/ RunEffects

SpecCompare == Init /\ [][CompareNext]_vars

\* Submissions of the form with valid and invalid fields.
SubmitNext ==
    \/ \E f \in SubmitFields : nextId <= PositionOrders /\ handleSubmit(f)
    \/ \E t \in timers : TimerFires(t)
    \/ \E b \in PositionBooks : BookUpdate(EXCHANGES[1], b)
    \/ Render
    \/ RunEffects

SpecSubmit == Init /\ [][SubmitNext]_vars

\* Direct calls of the impact simulator on every input of ImpactParams with
\* the books of its venue.
SpecImpact == InitImpact /\ [][calculateMarketImpactCall]_vars

\* The feed hook by itself: the three sockets, their messages and the books
\* they publish.
FeedNext ==
    \/ \E e \in Venues : onopen(e)
    \/ \E e \in Venues : onclose(e)
    \/ \E e \in Venues : \E m \in FeedMessages(e) : onmessage(e, m)
    \/ Render
    \/ RunEffects

SpecFeed == Init /\ [][FeedNext]_vars

\* The feed of OKX across changes of the symbol.
CleanupNext ==
    \/ \E i \in 1..Len(SYMBOLS) : setSymbol(SYMBOLS[i])
    \/ onopen(EXCHANGES[1])
    \/ \E m \in FeedMessages(EXCHANGES[1]) : onmessage(EXCHANGES[1], m)
    \/ onopenStale(EXCHANGES[1])
    \/ \E m \in FeedMessages(EXCHANGES[1]) : onmessageStale(EXCHANGES[1], m)
    \/ Render
    \/ RunEffects

SpecCleanup == Init /\ [][CleanupNext]_vars

\* The feed hook with its scheduling: a socket that is connecting opens,
\* React renders after a state update and runs the effects of a render.
\* Nothing obliges a socket to fail or the venue to send a message.
FeedOpens == \E e \in Venues : onopen(e)

SpecReconnect ==
    /\ Init /\ [][FeedNext]_vars
    /\ WF_vars(FeedOpens) /\ WF_vars(Render) /\ WF_effectPending(EffectsRun)

\* ------------------------------------------------------------- properties
StatusOf(s, id) == IF Has(s, id) THEN Get(s, id).status ELSE "absent"

\* The ledger the latest render saw is the current one.
PassIsFresh == view.simulatedOrders = simulatedOrders

\* C1: confirming a cancel changes the ledger only if the order named for
\* cancellation is Pending or Untriggered at that moment; if it has become
\* Filled, Failed or closed since the request, the ledger is left unchanged.
C1_CancelCommitsOnlyOnCancellable ==
    [][confirmCancelOrder =>
         \/ StatusOf(simulatedOrders, view.orderToCancel)
              \in {"Pending", "Untriggered"}
         \/ simulatedOrders' = simulatedOrders]_vars

\* C2: a commit of the re-evaluation pass never overwrites a newer ledger:
\* when the ledger has changed since the pass read it, the pass either
\* discards its result or commits what it computes from the changed ledger.
C2_PassKeepsNewerLedger ==
    [][(RunEffects /\ ~PassIsFresh) =>
         \/ simulatedOrders' = simulatedOrders
         \/ simulatedOrders' =
              EvaluationPass(
                [view EXCEPT !.simulatedOrders = simulatedOrders]).orders]_vars

\* The order of timer t was cancelled while Pending (it never got a result)
\* and its timer has not fired yet.
CancelledBeforeTimer(t) ==
    /\ t.params.timing > 0
    /\ StatusOf(simulatedOrders, t.id) = "Cancelled"
    /\ Get(simulatedOrders, t.id).result = NoResult

\* C3: an order placed with a non-zero delay and cancelled before its timer
\* fires stays Cancelled, and the firing of its timer leaves the ledger
\* unchanged.
C3_CancelledBeforeTimerStaysCancelled ==
    [][\A t \in timers :
         CancelledBeforeTimer(t)
           => /\ StatusOf(simulatedOrders', t.id) = "Cancelled"
              /\ TimerFires(t) => simulatedOrders' = simulatedOrders]_vars

\* Cancelled, Failed, or Filled with a realized pnl (0 included).
Terminal(o) ==
    \/ o.status \in {"Cancelled", "Failed"}
    \/ o.status = "Filled" /\ o.pnl # Undef

\* Order o is still in ledger s with the same status, quantity, entry
\* price, pnl and exit result.
KeptIn(s, o) ==
    /\ Has(s, o.id)
    /\ Get(s, o.id).status = o.status
    /\ Get(s, o.id).params.quantity = o.params.quantity
    /\ Get(s, o.id).result.avgFillPrice = o.result.avgFillPrice
    /\ Get(s, o.id).pnl = o.pnl
    /\ Get(s, o.id).exitResult = o.exitResult

\* C4: Cancelled, Failed and Filled-Closed orders (a realized pnl of exactly
\* 0 included) are terminal: a timer firing or a re-evaluation pass that
\* started from the current ledger leaves their status, quantity, entry
\* price, pnl and exit result as they are.
C4_TerminalOrdersAreFinal ==
    [][((\E t \in timers : TimerFires(t)) \/ (RunEffects /\ PassIsFresh)) =>
         \A i \in 1..Len(simulatedOrders) :
            Terminal(simulatedOrders[i])
              => KeptIn(simulatedOrders', simulatedOrders[i])]_vars

\* Filled with no realized pnl.
FilledOpen(o) == o.status = "Filled" /\ o.pnl = Undef

SameKey(o, n) ==
    /\ o.params.symbol = n.params.symbol
    /\ o.params.side = n.params.side
    /\ o.params.venue = n.params.venue

\* C5: the ledger never holds two Filled-Open positions with the same
\* symbol, side and venue.
C5_OneOpenPositionPerKey ==
    \A i, j \in 1..Len(simulatedOrders) :
       (/\ i # j
        /\ FilledOpen(simulatedOrders[i])
        /\ FilledOpen(simulatedOrders[j]))
         => ~SameKey(simulatedOrders[i], simulatedOrders[j])

\* C6: the realized pnl of a position is written once: a re-evaluation pass
\* that started from the current ledger (its stop triggers included) leaves
\* the pnl and the exit result of every closed position as they are.
C6_RealizedPnlWrittenOnce ==
    [][(RunEffects /\ PassIsFresh) =>
         \A i \in 1..Len(simulatedOrders) :
            simulatedOrders[i].pnl # Undef
              => /\ Has(simulatedOrders', simulatedOrders[i].id)
                 /\ Get(simulatedOrders', simulatedOrders[i].id).pnl
                      = simulatedOrders[i].pnl
                 /\ Get(simulatedOrders', simulatedOrders[i].id).exitResult
                      = simulatedOrders[i].exitResult]_vars

\* Buy: limitPrice >= bestAsk; Sell: limitPrice <= bestBid.
Marketable(p, book) ==
    \/ p.side = "Buy" /\ Len(book.asks) > 0 /\ p.price >= book.asks[1].price
    \/ p.side = "Sell" /\ Len(book.bids) > 0 /\ p.price <= book.bids[1].price

\* The cells are as the latest render saw them.
ViewIsFresh == view = Cells

\* C7: a Pending Limit order becomes Filled only in a step where the current
\* book of the order's own venue is marketable for it, whichever venue is
\* selected.  Stated for the passes that read the current ledger and books.
C7_LimitFillsOnOwnVenueBook ==
    [][(RunEffects /\ ViewIsFresh) =>
         \A i \in 1..Len(simulatedOrders) :
            (/\ simulatedOrders[i].status = "Pending"
             /\ simulatedOrders[i].params.orderType = "Limit"
             /\ StatusOf(simulatedOrders', simulatedOrders[i].id) = "Filled")
              => Marketable(simulatedOrders[i].params,
                            orderBooks[simulatedOrders[i].params.venue])]_vars

\* Timer t is about to act on an order that is still Pending.
StillPending(t) == StatusOf(simulatedOrders, t.id) = "Pending"

\* The current book of the venue of timer t's order.
BookAtFiring(t) == orderBooks[t.params.venue]

SetOrder(s, id, status, result) ==
    [i \in 1..Len(s) |->
       IF s[i].id = id THEN [s[i] EXCEPT !.status = status, !.result = result]
       ELSE s[i]]

\* C8: when the timer of a still Pending order fires, the outcome is the one
\* computed from the venue's book as it is at that moment, not from the book
\* that was current when the order was scheduled.
C8_TimerUsesBookAtFiring ==
    [][\A t \in timers :
         (TimerFires(t) /\ StillPending(t))
           => simulatedOrders' =
                TimerUpdate(simulatedOrders,
                            [t EXCEPT !.executionBook = BookAtFiring(t)])]_vars

\* C9: when the timer of a still Pending Market order fires and the venue's
\* book has both sides, the order becomes Filled-Open or is merged into a
\* matching Filled-Open position if the simulated filledPercentage is
\* positive, and becomes Failed otherwise; a Limit order with zero fill
\* stays Pending.
C9_TimerOutcomeFollowsFill ==
    [][\A t \in timers :
         (TimerFires(t) /\ StillPending(t) /\ BookAvailable(BookAtFiring(t)))
           => LET fill == calculateMarketImpact(t.params, BookAtFiring(t))
                  open == {i \in 1..Len(simulatedOrders) :
                             /\ FilledOpen(simulatedOrders[i])
                             /\ SameKey(simulatedOrders[i], [params |-> t.params])}
              IN  IF RLt(Zero, fill.filledPercentage)
                  THEN IF open = {}
                       THEN /\ StatusOf(simulatedOrders', t.id) = "Filled"
                            /\ FilledOpen(Get(simulatedOrders', t.id))
                       ELSE StatusOf(simulatedOrders', t.id) = "absent"
                  ELSE IF t.params.orderType = "Market"
                  THEN StatusOf(simulatedOrders', t.id) = "Failed"
                  ELSE simulatedOrders' = simulatedOrders]_vars

\* C10: when the timer of a still Pending order fires and no book data
\* exists for the order's venue, the order becomes Failed with the
\* data-unavailable reason, which is not the zero-liquidity reason, and the
\* rest of the ledger is unchanged.
C10_NoBookDataFailsOrder ==
    [][\A t \in timers :
         (TimerFires(t) /\ StillPending(t) /\ ~BookAvailable(BookAtFiring(t)))
           => /\ simulatedOrders' =
                   SetOrder(simulatedOrders, t.id, "Failed",
                            ErrorResult(DataUnavailable))
              /\ DataUnavailable # NotFilled]_vars

\* The mid-price (bestBid + bestAsk) / 2 of a book with both sides.
MidOf(book) == RDiv(Num(book.bids[1].price + book.asks[1].price), Num(2))

\* Sell stop: mid <= stopPrice; Buy stop: mid >= stopPrice.
StopTriggerMet(o, book) ==
    /\ BookAvailable(book)
    /\ \/ o.params.side = "Sell" /\ RLe(MidOf(book), Num(o.stopPrice))
       \/ o.params.side = "Buy" /\ RLe(Num(o.stopPrice), MidOf(book))

\* The Market execution of stop order o on a book.
StopFill(o, book) ==
    calculateMarketImpact([o.params EXCEPT !.orderType = "Market"], book)

\* Stop order o is consumed by a pass that evaluates it on this book.
StopFires(o, book) ==
    /\ o.status = "Untriggered"
    /\ StopTriggerMet(o, book)
    /\ RLt(Zero, StopFill(o, book).filledPercentage)

\* Order o of the ledger is kept by the step in everything but its livePnl.
SameButLivePnl(s, o) ==
    /\ Has(s, o.id)
    /\ [Get(s, o.id) EXCEPT !.livePnl = o.livePnl] = o

\* The stop orders of the viewed symbol whose venue is the selected one.
StopsInView ==
    {i \in 1..Len(simulatedOrders) :
       /\ simulatedOrders[i].status = "Untriggered"
       /\ simulatedOrders[i].params.symbol = symbol
       /\ simulatedOrders[i].params.venue = selectedExchange}

\* C11: in a re-evaluation pass that reads the current ledger and books, an
\* Untriggered stop order leaves the ledger exactly when the mid-price of
\* its venue's book meets its trigger and its Market execution fills more
\* than 0; the position it references then carries the pnl computed from
\* the stop's average fill price.  Otherwise
\* the stop stays as it is, and a position none of whose stops fires keeps
\* everything but its livePnl.
C11_StopConsumedOnlyOnTrigger ==
    [][(RunEffects /\ ViewIsFresh) =>
         /\ \A i \in StopsInView :
              LET o == simulatedOrders[i]
                  book == orderBooks[o.params.venue]
                  fill == StopFill(o, book)
              IN  IF StopFires(o, book)
                  THEN /\ ~Has(simulatedOrders', o.id)
                       /\ Has(simulatedOrders, o.positionId)
                            => /\ Has(simulatedOrders', o.positionId)
                               /\ Get(simulatedOrders', o.positionId).pnl =
                                    calculatePnl(Get(simulatedOrders, o.positionId),
                                                 fill.avgFillPrice)
                  ELSE /\ Has(simulatedOrders', o.id)
                       /\ Get(simulatedOrders', o.id) = o
         /\ \A k \in 1..Len(simulatedOrders) :
              (/\ simulatedOrders[k].status = "Filled"
               /\ \A i \in StopsInView :
                     simulatedOrders[i].positionId = simulatedOrders[k].id
                       => ~StopFires(simulatedOrders[i],
                                     orderBooks[simulatedOrders[i].params.venue]))
                => SameButLivePnl(simulatedOrders', simulatedOrders[k])]_vars

\* The opposite-side Market fill that closes position o on a book.
CloseFill(o, book) ==
    calculateMarketImpact(
        [o.params EXCEPT !.side = IF o.params.side = "Buy" THEN "Sell" ELSE "Buy",
                         !.orderType = "Market"], book)

FilledQuantity(q, fill) == RMul(Num(q), RDiv(fill.filledPercentage, Num(100)))

\* Position o after a fill of quantity fq at average price fp has been
\* averaged into it: quantity Q + q, entry price (P*Q + p*q) / (Q + q).
AveragedWith(before, after, fq, fp) ==
    LET Q == Num(before.params.quantity)
        P == before.result.avgFillPrice
    IN  /\ after.id = before.id
        /\ after.status = before.status
        /\ Num(after.params.quantity) = RAdd(Q, fq)
        /\ after.result.avgFillPrice =
             RDiv(RAdd(RMul(P, Q), RMul(fp, fq)), RAdd(Q, fq))

\* C13: when the fill of a same-direction Market order (timer) or of an
\* add-quantity is merged into an open position with quantity Q and entry
\* price P, the position afterwards has quantity Q + q and entry price
\* (P*Q + p*q) / (Q + q), q and p being the filled quantity and the average
\* price of the fill, and keeps its id and status.
C13_MergeIsWeightedAverage ==
    [][/\ \A t \in timers :
            (TimerFires(t) /\ StillPending(t) /\ BookAvailable(t.executionBook))
              => LET fill == calculateMarketImpact(t.params, t.executionBook)
                     e == FindOpenFrom(simulatedOrders, t.params, 1)
                 IN  (/\ RLt(Zero, fill.filledPercentage)
                      /\ e # 0
                      /\ FilledOpen(simulatedOrders[IF e = 0 THEN 1 ELSE e]))
                       => /\ Has(simulatedOrders', simulatedOrders[e].id)
                          /\ AveragedWith(
                               simulatedOrders[e],
                               Get(simulatedOrders', simulatedOrders[e].id),
                               FilledQuantity(t.params.quantity, fill),
                               fill.avgFillPrice)
       /\ \A id \in 1..MaxOrders :
            (handleAddQuantity(id, 1) /\ ViewIsFresh)
              => LET o == Get(simulatedOrders, id)
                     fill == calculateMarketImpact(
                               [o.params EXCEPT !.quantity = 1,
                                                !.orderType = "Market"],
                               orderBooks[o.params.venue])
                 IN  RLt(Zero, fill.filledPercentage)
                       => /\ Has(simulatedOrders', id)
                          /\ AveragedWith(o, Get(simulatedOrders', id),
                                          FilledQuantity(1, fill),
                                          fill.avgFillPrice)]_vars

\* C14: after a re-evaluation pass that read the current ledger and books
\* and ran to its end (the selected venue's book has both sides), the
\* livePnl of every open position of the viewed symbol is the pnl of the
\* position at the mid-price of the position's own venue ((ref - entry) * qty
\* for Buy, (entry - ref) * qty for Sell), whichever venue is selected.
C14_LivePnlUsesOwnVenueMid ==
    [][(RunEffects /\ ViewIsFresh /\ BookAvailable(orderBooks[selectedExchange])) =>
         \A i \in 1..Len(simulatedOrders) :
            LET o == simulatedOrders[i]
                book == orderBooks[o.params.venue]
            IN  (/\ FilledOpen(o)
                 /\ o.params.symbol = symbol
                 /\ BookAvailable(book)
                 /\ Has(simulatedOrders', o.id)
                 /\ FilledOpen(Get(simulatedOrders', o.id)))
                  => Get(simulatedOrders', o.id).livePnl =
                       calculatePnl(Get(simulatedOrders', o.id), MidOf(book))]_vars

\* A Limit order is Pending while the book of its own venue is marketable
\* for it.
PendingAndMarketable ==
    \E i \in 1..Len(simulatedOrders) :
       /\ simulatedOrders[i].status = "Pending"
       /\ simulatedOrders[i].params.orderType = "Limit"
       /\ Marketable(simulatedOrders[i].params,
                     orderBooks[simulatedOrders[i].params.venue])

\* C15: an outage of the selected venue does not halt the evaluation of the
\* others: while another venue keeps publishing books, a Pending Limit order
\* on it does not stay Pending forever with its own venue's book marketable;
\* it is eventually filled.
C15_OutageDoesNotHaltOtherVenues == []<>(~PendingAndMarketable)

\* C16: after a connection error or an abnormal close of a venue's socket,
\* the connectivity status of that venue is not 'Connected' and the status
\* of every other venue is as it was.
C16_ClosedSocketIsNotConnected ==
    [][\A e \in Venues :
         onclose(e)
           => /\ connectionStatus'[e] # "Connected"
              /\ \A o \in Venues \ {e} :
                    connectionStatus'[o] = connectionStatus[o]]_vars

\* C17: after the connection of a venue has failed or closed, the adapter
\* eventually attempts to connect to that venue again, the symbol staying
\* as it is.
C17_ClosedSocketReconnects ==
    \A e \in Venues : (sockets[e] = "CLOSED") ~> (sockets[e] = "CONNECTING")

\* The levels a snapshot carries on one side: an entry is [price, size] on
\* OKX and BYBIT and [type, price, size] on DERIBIT.
SnapshotLevels(exchange, entries) ==
    LET p == IF exchange = "DERIBIT" THEN 2 ELSE 1
    IN  {Level(Published(parseFloat(entries[i][p])),
               Published(parseFloat(entries[i][p + 1]))) : i \in 1..Len(entries)}
LevelsOf(side) == {side[i] : i \in 1..Len(side)}

\* C18: for each of the three venues, once a snapshot message has been
\* applied the published book of the venue holds exactly the levels the
\* snapshot carries, each with its price and size, whatever the Maps held
\* before; DERIBIT's entries have the shape [type, price, size].
C18_SnapshotReplacesBook ==
    [][\A e \in Venues : \A m \in FeedMessages(e) :
         (m.kind = "snapshot" /\ onmessage(e, m))
           => /\ LevelsOf(orderBooks'[e].bids) = SnapshotLevels(e, m.bids)
              /\ LevelsOf(orderBooks'[e].asks) = SnapshotLevels(e, m.asks)
              /\ Len(orderBooks'[e].bids) = Len(m.bids)
              /\ Len(orderBooks'[e].asks) = Len(m.asks)]_vars

\* A published number as a rational.
AsRational(x) == IF x \in Int THEN Num(x) ELSE x
StrictlyOrdered(side, descending) ==
    \A i \in 1..Len(side) - 1 :
       IF descending
       THEN RLt(AsRational(side[i + 1].price), AsRational(side[i].price))
       ELSE RLt(AsRational(side[i].price), AsRational(side[i + 1].price))

\* C19: after any sequence of snapshot and delta messages every published
\* book has its bids strictly descending and its asks strictly ascending by
\* numeric price, so no two levels of a side have the same numeric price,
\* also when the feed sent one price under two different texts.
C19_PublishedBooksStrictlySorted ==
    \A e \in Venues : /\ StrictlyOrdered(orderBooks[e].bids, TRUE)
                      /\ StrictlyOrdered(orderBooks[e].asks, FALSE)

PositiveSizes(side) ==
    \A i \in 1..Len(side) : RLt(Zero, AsRational(side[i].size))
StoredPositive(m) ==
    \A i \in 1..Len(m) :
       ~isNaN(parseFloat(m[i].value)) /\ RLt(Zero, parseFloat(m[i].value))

\* C20: after any sequence of snapshots and deltas every price level of a
\* stored book and of a published book has a size greater than zero, also
\* when a snapshot carried a level of size 0.
C20_EveryLevelHasPositiveSize ==
    \A e \in Venues : /\ PositiveSizes(orderBooks[e].bids)
                      /\ PositiveSizes(orderBooks[e].asks)
                      /\ StoredPositive(bookRefs[e].bids)
                      /\ StoredPositive(bookRefs[e].asks)

\* The numeric price and size of a delta entry: [price, size] on OKX and
\* BYBIT, [type, price, size] on DERIBIT.
EntryPrice(exchange, entry) ==
    parseFloat(entry[IF exchange = "DERIBIT" THEN 2 ELSE 1])
EntrySize(exchange, entry) ==
    parseFloat(entry[IF exchange = "DERIBIT" THEN 3 ELSE 2])
HasPrice(side, price) ==
    \E i \in 1..Len(side) : AsRational(side[i].price) = price
\* The levels of a side at prices no entry of the delta names.
Untouched(exchange, entries, side) ==
    {side[i] : i \in {j \in 1..Len(side) :
                        \A k \in 1..Len(entries) :
                           EntryPrice(exchange, entries[k])
                             # AsRational(side[j].price)}}
DeltaApplied(exchange, entries, before, after) ==
    /\ \A k \in 1..Len(entries) :
         IF EntrySize(exchange, entries[k]) = Zero
         THEN ~HasPrice(after, EntryPrice(exchange, entries[k]))
         ELSE \E i \in 1..Len(after) :
                 /\ AsRational(after[i].price) = EntryPrice(exchange, entries[k])
                 /\ AsRational(after[i].size) = EntrySize(exchange, entries[k])
    /\ Untouched(exchange, entries, after) = Untouched(exchange, entries, before)

\* C21: a delta of size 0 for a price that is present in a side removes that
\* level from the published book and leaves every other level as it was; a
\* delta of non-zero size for a price puts a level of that size at that
\* price, also when the price had been removed before.
C21_ZeroSizeDeltaRemovesLevel ==
    [][\A e \in Venues : \A m \in FeedMessages(e) :
         (m.kind \notin {"snapshot", "heartbeat"} /\ onmessage(e, m))
           => /\ DeltaApplied(e, m.bids, orderBooks[e].bids, orderBooks'[e].bids)
              /\ DeltaApplied(e, m.asks, orderBooks[e].asks, orderBooks'[e].asks)]_vars

\* --------------------------------------------- the impact simulator
\* A finished call of calculateMarketImpact with a positive quantity and a
\* book.
Simulated ==
    /\ impactCall # <<>>
    /\ impactCall[1].returned
    /\ impactCall[1].book # <<>>
    /\ ~isNaN(parseFloat(impactCall[1].params.quantity))
    /\ RLt(Zero, parseFloat(impactCall[1].params.quantity))

\* The reference walk.  The quantity a level offers, in base currency.
BaseSize(p, level) ==
    IF p.venue = "DERIBIT" THEN RDiv(Num(level.size), Num(level.price))
    ELSE Num(level.size)
OpposingSide(p, book) == IF p.side = "Buy" THEN book.asks ELSE book.bids
WithinLimit(p, level) ==
    \/ p.orderType # "Limit"
    \/ p.side = "Buy" /\ level.price <= p.price
    \/ p.side = "Sell" /\ level.price >= p.price
\* The number of levels before the first one that crosses the limit.
EligibleCount(p, levels) ==
    CHOOSE n \in 0..Len(levels) :
       /\ \A i \in 1..n : WithinLimit(p, levels[i])
       /\ n = Len(levels) \/ ~WithinLimit(p, levels[n + 1])
RECURSIVE SizeThrough(_, _, _)
SizeThrough(p, levels, n) ==
    IF n = 0 THEN Zero
    ELSE RAdd(SizeThrough(p, levels, n - 1), BaseSize(p, levels[n]))
\* What an order of size q has taken once it has passed the first n levels.
TakenThrough(p, q, levels, n) == RMin(q, SizeThrough(p, levels, n))
RECURSIVE CostThrough(_, _, _, _)
CostThrough(p, q, levels, n) ==
    IF n = 0 THEN Zero
    ELSE RAdd(CostThrough(p, q, levels, n - 1),
              RMul(RSub(TakenThrough(p, q, levels, n),
                        TakenThrough(p, q, levels, n - 1)),
                   Num(levels[n].price)))
ReferenceFilled(p, q, levels) ==
    TakenThrough(p, q, levels, EligibleCount(p, levels))
ReferenceCost(p, q, levels) ==
    CostThrough(p, q, levels, EligibleCount(p, levels))
ReferenceImpact(p, q, levels) ==
    IF Len(levels) = 0 \/ ReferenceFilled(p, q, levels) = Zero THEN ZeroImpact
    ELSE LET avg == RDiv(ReferenceCost(p, q, levels),
                         ReferenceFilled(p, q, levels))
             best == Num(levels[1].price)
         IN  [avgFillPrice |-> avg,
              slippage |-> RMul(RDiv(RAbs(RSub(avg, best)), best), Num(100)),
              filledPercentage |->
                 RMul(RDiv(ReferenceFilled(p, q, levels), q), Num(100)),
              priceImpact |-> RAbs(RSub(avg, best))]

\* C22: for every order and every sorted book the simulation gives
\* 0 <= filledSize <= quantity (0 <= filledPercentage <= 100) and
\* slippage >= 0, and when something is filled avgFillPrice is
\* totalCost / filledSize of the walk of the opposing side from the best
\* price that takes min(remaining, level size) at each level.
C22_FillWithinQuantity ==
    Simulated =>
      LET call == impactCall[1]
          q == parseFloat(call.params.quantity)
          levels == OpposingSide(call.params, call.book[1])
          filledSize == RDiv(RMul(call.result.filledPercentage, q), Num(100))
      IN  /\ RLe(Zero, call.result.filledPercentage)
          /\ RLe(call.result.filledPercentage, Num(100))
          /\ RLe(Zero, filledSize) /\ RLe(filledSize, q)
          /\ RLe(Zero, call.result.slippage)
          /\ filledSize = ReferenceFilled(call.params, q, levels)
          /\ RLt(Zero, filledSize)
               => call.result.avgFillPrice
                    = RDiv(ReferenceCost(call.params, q, levels), filledSize)
\* The spec's scenario: Buy Market 5 on asks 100x1, 101x2 fills 3, 60 %.
C22_Witness ==
    /\ Simulated
    /\ impactCall[1].params.orderType = "Market"
    /\ impactCall[1].params.side = "Buy"
    /\ impactCall[1].params.quantity = Str(T5)
    /\ impactCall[1].book = <<BookTwo>>
    /\ impactCall[1].params.venue = "OKX"
    /\ impactCall[1].result.filledPercentage = Num(60)

\* C23: for a Limit order the simulation takes nothing from a level whose
\* price is beyond the limit nor from any level after the first such level:
\* on a sorted book its result is that of the reference walk that stops at
\* the first level crossing the limit, and what it fills is at most what
\* the levels before that one offer.
C23_LimitStopsAtFirstCrossing ==
    (Simulated /\ impactCall[1].params.orderType = "Limit") =>
      LET call == impactCall[1]
          q == parseFloat(call.params.quantity)
          levels == OpposingSide(call.params, call.book[1])
          filledSize == RDiv(RMul(call.result.filledPercentage, q), Num(100))
      IN  /\ call.result = ReferenceImpact(call.params, q, levels)
          /\ RLe(filledSize,
                 SizeThrough(call.params, levels,
                             EligibleCount(call.params, levels)))
\* Buy Limit 100 for 2 on asks 100x1, 101x1, 102x1 fills 1 at 100.
C23_Witness ==
    /\ Simulated
    /\ impactCall[1].params.orderType = "Limit"
    /\ impactCall[1].params.side = "Buy"
    /\ impactCall[1].params.price = 100
    /\ impactCall[1].params.quantity = Str(T2)
    /\ impactCall[1].book = <<BookThree>>
    /\ impactCall[1].result.filledPercentage = Num(50)
    /\ impactCall[1].result.avgFillPrice = Num(100)

\* A call of calculateMarketImpact has ended, by returning or by throwing.
CallEnded ==
    impactCall # <<>> /\ (impactCall[1].returned \/ impactCall[1].threw)
\* The edge cases: no book, an empty book, an empty relevant side, a
\* quantity that is not a number or not positive.
EdgeCase(call) ==
    \/ call.book = <<>>
    \/ Len(OpposingSide(call.params, call.book[1])) = 0
    \/ isNaN(parseFloat(call.params.quantity))
    \/ RLe(parseFloat(call.params.quantity), Zero)

\* C24: the impact simulation returns the all-zero result and never throws
\* for a missing (undefined or null) book, an empty book, an empty relevant
\* side, and a quantity that is not positive or not a number.
C24_EdgeCasesReturnSentinel ==
    (CallEnded /\ EdgeCase(impactCall[1]))
      => /\ ~impactCall[1].threw
         /\ impactCall[1].returned
         /\ impactCall[1].result = ZeroImpact

\* ------------------------------------------------- timing comparison
ScaledBy(row, baseImpact, scenario) ==
    /\ row.slippage
         = RMul(baseImpact.slippage, RAdd(Num(1), scenario.delayFactor))
    /\ row.priceImpact
         = RMul(baseImpact.priceImpact, RAdd(Num(1), scenario.delayFactor))
SameImpact(row, baseImpact) ==
    /\ row.avgFillPrice = baseImpact.avgFillPrice
    /\ row.slippage = baseImpact.slippage
    /\ row.priceImpact = baseImpact.priceImpact
    /\ row.filledPercentage = baseImpact.filledPercentage

\* C25: a timing comparison leaves the order ledger as it is for every
\* input; each scenario of its report has the slippage and the priceImpact
\* of the base simulation multiplied by (1 + the scenario's factor), and the
\* zero-delay scenario has the base simulation's result unchanged.
C25_CompareIsPureAndScaled ==
    [][\A f \in CompareFields :
         handleCompare(CompareParams(f))
           => /\ simulatedOrders' = simulatedOrders
              /\ timers' = timers
              /\ BookAvailable(view.orderBooks[view.selectedExchange])
                   => LET baseImpact ==
                              calculateMarketImpact(
                                CompareParams(f),
                                view.orderBooks[view.selectedExchange])
                          rows == comparisonResult'[1]
                      IN  /\ Len(rows) = Len(TIMING_SCENARIOS)
                          /\ \A i \in 1..Len(rows) :
                                ScaledBy(rows[i], baseImpact,
                                         TIMING_SCENARIOS[i])
                          /\ SameImpact(rows[1], baseImpact)]_vars
\* A report for a Buy of 2 against asks 100x1, 101x2 (slippage 0.5 %, and
\* 0.525 % with the 5 s delay) while the ledger holds an order.
C25_Witness ==
    /\ comparisonResult # <<>>
    /\ simulatedOrders # <<>>
    /\ comparisonResult[1][1].slippage = Rat(1, 2)
    /\ comparisonResult[1][2].slippage = Rat(21, 40)

\* ---------------------------------------------------- form validation
\* A quantity, or the price of a Limit order, that is missing or not
\* positive.
MissingOrNonPositive(text) ==
    \/ text.v = <<>>
    \/ ~isNaN(parseFloat(text)) /\ ~RLt(Zero, parseFloat(text))
InvalidPlacement(formState) ==
    \/ MissingOrNonPositive(formState.quantity)
    \/ formState.orderType = "Limit" /\ MissingOrNonPositive(formState.price)

\* C26: placing an order with a missing or non-positive quantity, or a Limit
\* order with a missing or non-positive price, is rejected in the same
\* step: no order is added to the ledger and no execution timer is set.
C26_InvalidPlacementRejected ==
    [][\A f \in SubmitFields :
         (InvalidPlacement(f) /\ handleSubmit(f))
           => /\ simulatedOrders' = simulatedOrders
              /\ timers' = timers
              /\ slippageWarning' = slippageWarning]_vars
\* Both rejections have happened with a book available: the alert about the
\* price is up after one about the quantity, and nothing was placed.
C26_Witness ==
    /\ alertText = "Please enter a valid price for a limit order."
    /\ BookAvailable(view.orderBooks[view.selectedExchange])
    /\ simulatedOrders = <<>>
    /\ timers = {}

\* ------------------------------------------------------- spot market
\* The ledger holds an open Buy position for the symbol.
OpenBuyPosition(orders, sym) ==
    \E i \in 1..Len(orders) :
       /\ orders[i].status = "Filled" /\ Falsy(orders[i].pnl)
       /\ orders[i].params.side = "Buy"
       /\ orders[i].params.symbol = sym
FilledIn(orders, id) ==
    \E i \in 1..Len(orders) : orders[i].id = id /\ orders[i].status = "Filled"

\* C27: a Sell order placed while the ledger holds no open Buy position for
\* its symbol is not permitted: it fails, and no Sell position is opened.
\* No step turns a Sell order into a filled position unless the ledger
\* held an open Buy position for that symbol.
C27_SellNeedsOpenBuyPosition ==
    [][\A i \in 1..Len(simulatedOrders') :
         (/\ simulatedOrders'[i].status = "Filled"
          /\ simulatedOrders'[i].params.side = "Sell"
          /\ ~FilledIn(simulatedOrders, simulatedOrders'[i].id))
           => OpenBuyPosition(simulatedOrders,
                              simulatedOrders'[i].params.symbol)]_vars

\* ------------------------------------------------ cleanup of the feed
\* C28: once the cleanup of the feed hook has run, no socket of the
\* previous run opens its subscription (and keep-alive) or applies a message
\* to the Maps of its venue: a socket that was still connecting when the
\* cleanup ran never becomes an open socket of the old symbol, and the Maps
\* of a venue hold levels of the hook's current symbol only.
C28_NoStaleSocketAfterCleanup ==
    \A v \in Venues :
       /\ staleSockets[v].readyState # "OPEN"
       /\ appliedSymbols[v] \subseteq {feedSymbol}

\* ------------------------------------------------- stops and positions
\* C29: in every ledger state, each Untriggered stop order whose positionId
\* names an order of the ledger refers to a position that is still open (no
\* pnl set): once a position is closed, by an explicit close or by a stop,
\* no Untriggered stop is attached to it.
C29_StopsReferToOpenPositions ==
    \A i \in 1..Len(simulatedOrders) :
       (/\ simulatedOrders[i].status = "Untriggered"
        /\ Has(simulatedOrders, simulatedOrders[i].positionId))
         => Get(simulatedOrders, simulatedOrders[i].positionId).pnl = Undef

\* ------------------------------------------------ published snapshots
\* C30: a book handed to readers is never changed by later feed messages:
\* a message leaves the books the latest render holds (the ones its
\* handlers, its effect and its timers read) as they are and publishes a
\* new value for its venue, and it leaves the published books of the other
\* venues unchanged.
C30_PublishedBooksAreImmutable ==
    [][\A e \in Venues : \A m \in FeedMessages(e) :
         onmessage(e, m)
           => /\ view'.orderBooks = view.orderBooks
              /\ timers' = timers
              /\ \A o \in Venues \ {e} : orderBooks'[o] = orderBooks[o]
              /\ m.kind # "heartbeat"
                   => orderBooks'[e] = PublishedBook(bookRefs'[e])]_vars
\* The latest render holds a book of OKX with both sides, OKX has published
\* another one since, and BYBIT's published book is in place.
C30_Witness ==
    /\ BookAvailable(view.orderBooks["OKX"])
    /\ BookAvailable(orderBooks["OKX"])
    /\ orderBooks["OKX"] # view.orderBooks["OKX"]
    /\ BookAvailable(orderBooks["BYBIT"])

====
